---- MODULE Spec2Model ----
(***************************************************************************)
(* Referral-graph materialization of the BDC MLM backend.                  *)
(*                                                                         *)
(* The three MongoDB collections are modelled as:                          *)
(*   users        the User collection, a function from wallet address to   *)
(*                the stored document (walletAddress has a unique index)   *)
(*   levels       the Level collection, the documents in insertion order   *)
(*                (no unique index: equal keys can coexist)                *)
(*   investments  the Investment collection in insertion order             *)
(*                (txHash has a unique index)                              *)
(* Wallet addresses are canonical (lower-case) and written as numbers.     *)
(***************************************************************************)
EXTENDS Integers, Sequences, FiniteSets, TLC

VARIABLES users, levels, investments, response, handlers, scenario, lateBound,
          opCount, reads, cache, now, sync, historical

vars == <<users, levels, investments, response, handlers, scenario, lateBound,
          opCount, reads, cache, now, sync, historical>>

\* ---------------------------------------------------------------- bounds
NumAddr == 3
MaxTx == 2
MaxDeposits == 2
MaxEarnings == 1
ChainLen == 23
MaxConcEvents == 4
MaxOps == 4
MaxRows == 2
NumBatches == 2

\* ------------------------------------------------------- program constants
\* referrerAddress: { default: null }
Null == -1

\* Registered wallets are 1..NumAddr.  Address 0 is the zero address: a
\* Registration event carries it as referrer of a user without referrer, and
\* it never registers itself.
Addr == 1..NumAddr
EventAddr == 0..NumAddr
TxHashes == 1..MaxTx
Amounts == {0, 100}
Procs == {1, 2}

\* ------------------------------------------------------------ documents
\* new User({walletAddress, referrerAddress, registrationTime}); status and
\* deposits take their schema defaults.
NewUser(referrerAddress) ==
  [referrerAddress |-> referrerAddress, status |-> "active", deposits |-> << >>]

\* new Level({...}); totalInvestment/totalEarnings/isActive default 0/0/true.
NewLevel(userAddress, referrerAddress, level, totalInvestment) ==
  [userAddress |-> userAddress, referrerAddress |-> referrerAddress,
   level |-> level, totalInvestment |-> totalInvestment,
   totalEarnings |-> 0, isActive |-> TRUE]

\* new Investment({...}); status defaults to (or is set to) 'confirmed'.
NewInvestment(userAddress, amount, txHash) ==
  [userAddress |-> userAddress, amount |-> amount, txHash |-> txHash,
   status |-> "confirmed"]

\* JavaScript truthiness of a stored referrerAddress: null is falsy, every
\* address string (the zero address included) is truthy.
Truthy(referrerAddress) == referrerAddress # Null

\* User.findByWallet(a) as an existence test.
UserExists(U, a) == a \in DOMAIN U

\* userSchema.methods.addDeposit: push onto deposits and save.
addDeposit(U, a, amount, txHash) ==
  [U EXCEPT ![a].deposits = Append(@, [amount |-> amount, txHash |-> txHash])]

\* Investment.findOne({ txHash }) as an existence test.
TxRecorded(I, txHash) == \E k \in 1..Len(I) : I[k].txHash = txHash

\* Level.findOne({userAddress, referrerAddress, level}): index of the first
\* matching document, 0 when there is none.
FindOneLevel_Never(L, userAddress, referrerAddress, level) == 0

FindOneLevel(L, userAddress, referrerAddress, level) ==
  LET hits == {k \in 1..Len(L) : /\ L[k].userAddress = userAddress
                                 /\ L[k].referrerAddress = referrerAddress
                                 /\ L[k].level = level}
  IN IF hits = {} THEN 0 ELSE CHOOSE k \in hits : \A j \in hits : k <= j

\* ------------------------------------------------- event listener (part_010)
\* getUplineChain(userAddress, maxLevels): the referrers met walking up from
\* userAddress, userAddress itself excluded.
RECURSIVE UplineWalk(_, _, _, _)
UplineWalk(U, currentAddress, i, maxLevels) ==
  IF i >= maxLevels THEN << >>
  ELSE IF ~UserExists(U, currentAddress) \/ ~Truthy(U[currentAddress].referrerAddress)
       THEN << >>
       ELSE <<U[currentAddress].referrerAddress>>
              \o UplineWalk(U, U[currentAddress].referrerAddress, i + 1, maxLevels)

getUplineChain(U, userAddress, maxLevels) == UplineWalk(U, userAddress, 0, maxLevels)

\* Loop bound of createLevelRelationships: i < uplineChain.length && i < 21.
RelationLoopContinues(i, uplineChain) == i < Len(uplineChain) /\ i < 21

RECURSIVE RelationLoop(_, _, _, _)
RelationLoop(L, uplineChain, i, userAddress) ==
  IF ~RelationLoopContinues(i, uplineChain) THEN L
  ELSE LET level == i + 1
           uplineAddress == uplineChain[i + 1]
       IN IF FindOneLevel(L, userAddress, uplineAddress, level) # 0
          THEN RelationLoop(L, uplineChain, i + 1, userAddress)
          ELSE RelationLoop(Append(L, NewLevel(userAddress, uplineAddress, level, 0)),
                            uplineChain, i + 1, userAddress)

\* createLevelRelationships(userAddress, referrerAddress): the chain walked
\* is the upline of the REFERRER, so its first entry is the referrer's own
\* referrer.
createLevelRelationships(L, U, userAddress, referrerAddress) ==
  RelationLoop(L, getUplineChain(U, referrerAddress, 21), 0, userAddress)

\* EventListener.updateLevelInvestments: every active row whose downline is
\* userAddress gets the amount added.
updateLevelInvestments(L, userAddress, amount) ==
  [k \in 1..Len(L) |->
     IF L[k].userAddress = userAddress /\ L[k].isActive
     THEN [L[k] EXCEPT !.totalInvestment = @ + amount]
     ELSE L[k]]

\* updateLevelEarnings with the level left out of its findOne filter and the
\* amount added to every row it then matches.
updateLevelEarnings_AnyLevel(L, userAddress, fromAddress, amount, level) ==
  [k \in 1..Len(L) |->
     IF L[k].userAddress = fromAddress /\ L[k].referrerAddress = userAddress /\ L[k].isActive
     THEN [L[k] EXCEPT !.totalEarnings = @ + amount]
     ELSE L[k]]

\* EventListener.updateLevelEarnings: the first active row keyed
\* (from, user, level) gets the amount added; nothing happens without one.
updateLevelEarnings(L, userAddress, fromAddress, amount, level) ==
  LET hits == {k \in 1..Len(L) : /\ L[k].userAddress = fromAddress
                                 /\ L[k].referrerAddress = userAddress
                                 /\ L[k].level = level
                                 /\ L[k].isActive}
  IN IF hits = {} THEN L
     ELSE LET k == CHOOSE h \in hits : \A j \in hits : h <= j
          IN [L EXCEPT ![k].totalEarnings = @ + amount]

\* The while condition of the route helper with its level cap one too high.
InvestLoopContinues_CapOff(currentReferrer, currentLevel) ==
  Truthy(currentReferrer) /\ currentLevel <= 22

\* --------------------------------------------------- routes/investmentRoutes
\* Loop of the route helper updateLevelInvestments: find or create the row
\* (userAddress, currentReferrer, currentLevel), add the amount, move up.
InvestLoopContinues(currentReferrer, currentLevel) ==
  Truthy(currentReferrer) /\ currentLevel <= 21

\* let levelRelation = await Level.findOne(...); create it with the amount or
\* add the amount to it; await levelRelation.save()
SaveInvestment(L, userAddress, investmentAmount, currentReferrer, currentLevel) ==
  IF FindOneLevel(L, userAddress, currentReferrer, currentLevel) = 0
  THEN Append(L, NewLevel(userAddress, currentReferrer, currentLevel, investmentAmount))
  ELSE [L EXCEPT ![FindOneLevel(L, userAddress, currentReferrer, currentLevel)]
                     .totalInvestment = @ + investmentAmount]

RECURSIVE InvestLoop(_, _, _, _, _, _)
InvestLoop(L, U, userAddress, investmentAmount, currentReferrer, currentLevel) ==
  IF ~InvestLoopContinues(currentReferrer, currentLevel) THEN L
  ELSE IF UserExists(U, currentReferrer) /\ Truthy(U[currentReferrer].referrerAddress)
       THEN InvestLoop(SaveInvestment(L, userAddress, investmentAmount,
                                      currentReferrer, currentLevel),
                       U, userAddress, investmentAmount,
                       U[currentReferrer].referrerAddress, currentLevel + 1)
       ELSE SaveInvestment(L, userAddress, investmentAmount, currentReferrer,
                           currentLevel)

updateLevelInvestmentsRoute(L, U, userAddress, investmentAmount) ==
  IF ~UserExists(U, userAddress) \/ ~Truthy(U[userAddress].referrerAddress)
  THEN L
  ELSE InvestLoop(L, U, userAddress, investmentAmount, U[userAddress].referrerAddress, 1)

\* ---------------------------------------------------------- routes/userRoutes
\* User.find({referrerAddress, status: 'active'}), listed in address order.
RECURSIVE SetToSeq(_)
SetToSeq(S) ==
  IF S = {} THEN << >>
  ELSE LET m == CHOOSE x \in S : \A y \in S : x <= y
       IN <<m>> \o SetToSeq(S \ {m})

ActiveReferrals_AnyStatus(U, referrerAddress) ==
  SetToSeq({a \in DOMAIN U : U[a].referrerAddress = referrerAddress})

ActiveReferrals(U, referrerAddress) ==
  SetToSeq({a \in DOMAIN U : /\ U[a].referrerAddress = referrerAddress
                             /\ U[a].status = "active"})

DeeperLevelStops_OneMore(currentLevel) == currentLevel > 22

\* if (currentLevel > 21) return;
DeeperLevelStops(currentLevel) == currentLevel > 21

RECURSIVE Flatten(_)
Flatten(seqs) == IF seqs = << >> THEN << >> ELSE Head(seqs) \o Flatten(Tail(seqs))

\* The referrals that createDeeperLevels(userAddress, originalReferrer,
\* currentLevel) comes to, each with the level of the call, in the order of
\* the code: a referral, then the calls below it, then the next referral.
\* The call descends below a referral whether its row existed or not.
RECURSIVE DeeperVisits(_, _, _)
DeeperVisits(U, userAddress, currentLevel) ==
  IF DeeperLevelStops(currentLevel) THEN << >>
  ELSE LET userReferrals == ActiveReferrals(U, userAddress)
       IN Flatten([n \in 1..Len(userReferrals) |->
                     <<[userAddress |-> userReferrals[n], level |-> currentLevel]>>
                       \o DeeperVisits(U, userReferrals[n], currentLevel + 1)])

\* The rows a visit meets: those of before the call and those of the visits
\* before it, saved by these or found by them.
RowsAtVisit(L, visits, i, originalReferrer) ==
  L \o [j \in 1..(i - 1) |->
          NewLevel(visits[j].userAddress, originalReferrer, visits[j].level, 0)]

\* const existingLevel = await Level.findOne(...); if (!existingLevel) a new
\* Level is saved: the visits that save, in their order.
SavingVisits(L, visits, originalReferrer) ==
  SelectSeq([i \in 1..Len(visits) |-> i],
            LAMBDA i : FindOneLevel(RowsAtVisit(L, visits, i, originalReferrer),
                                    visits[i].userAddress, originalReferrer,
                                    visits[i].level) = 0)

createDeeperLevels(L, U, userAddress, originalReferrer, currentLevel) ==
  LET visits == DeeperVisits(U, userAddress, currentLevel)
      saving == SavingVisits(L, visits, originalReferrer)
  IN L \o [k \in 1..Len(saving) |->
             NewLevel(visits[saving[k]].userAddress, originalReferrer,
                      visits[saving[k]].level, 0)]

\* POST /:walletAddress/setup-levels, first loop: the level-1 rows.
RECURSIVE SetupLevelOne(_, _, _, _)
SetupLevelOne(L, directReferrals, n, walletAddress) ==
  IF n > Len(directReferrals) THEN L
  ELSE LET referral == directReferrals[n]
       IN IF FindOneLevel(L, referral, walletAddress, 1) # 0
          THEN SetupLevelOne(L, directReferrals, n + 1, walletAddress)
          ELSE SetupLevelOne(Append(L, NewLevel(referral, walletAddress, 1, 0)),
                             directReferrals, n + 1, walletAddress)

\* POST /:walletAddress/setup-levels, second loop: levels 2..21.
RECURSIVE SetupDeeper(_, _, _, _, _)
SetupDeeper(L, U, directReferrals, n, walletAddress) ==
  IF n > Len(directReferrals) THEN L
  ELSE SetupDeeper(createDeeperLevels(L, U, directReferrals[n], walletAddress, 2),
                   U, directReferrals, n + 1, walletAddress)

setupLevelsRows(L, U, walletAddress) ==
  LET directReferrals == ActiveReferrals(U, walletAddress)
  IN SetupDeeper(SetupLevelOne(L, directReferrals, 1, walletAddress),
                 U, directReferrals, 1, walletAddress)

\* ------------------------------------------------------------- bookkeeping
\* What the last operation gave its caller and its log: for a route the HTTP
\* status and the entry in the body; for an event handler "resolved", since
\* every handler catches what it throws.  log is the level of the line the
\* operation ended on: "info" for its success line, "error" for logger.error.
Response(op, status, body, log) ==
  [op |-> op, status |-> status, body |-> body, log |-> log]

\* constructor() of SyncService: this.isRunning = false.  pc holds, for each
\* call of performSync, the await it stands at.
SyncCalls == {"start", "cron"}
SyncIdle == [isRunning |-> FALSE, pc |-> [c \in SyncCalls |-> "none"]]

\* constructor() of EventListener: this.isProcessingHistorical = false.
NotProcessing ==
  [isProcessingHistorical |-> FALSE, pc |-> "none", chain |-> << >>,
   batch |-> 0, k |-> 0, handled |-> << >>]

Idle == [pc |-> "idle", userAddress |-> 0, referrerAddress |-> 0,
         found |-> FALSE, currentAddress |-> 0, uplineChain |-> << >>, i |-> 0,
         amount |-> 0, txHash |-> 0]

\* History of the run against Scenario A of the specification: registration
\* of root 1, of 2 under 1, of 3 under 2, then a deposit of 100 by 3.  The
\* value is the number of scenario steps done, or -1 once the run left it.
ScenarioSteps ==
  <<[op |-> "registration", userAddress |-> 1, arg |-> 0],
    [op |-> "registration", userAddress |-> 2, arg |-> 1],
    [op |-> "registration", userAddress |-> 3, arg |-> 2],
    [op |-> "deposit", userAddress |-> 3, arg |-> 100]>>

ScenarioNext(op, userAddress, arg) ==
  IF /\ scenario >= 0
     /\ scenario < Len(ScenarioSteps)
     /\ ScenarioSteps[scenario + 1] = [op |-> op, userAddress |-> userAddress, arg |-> arg]
  THEN scenario + 1
  ELSE -1

\* ------------------------------------------------------------- utils/cache
\* class SimpleCache: a Map from key to {value, expiry}; expiry and the clock
\* `now` are in milliseconds, as Date.now() is.  A get answers << >> for
\* undefined and <<value>> for a value.
Remove(C, keys) == [k \in DOMAIN C \ keys |-> C[k]]

\* set(key, value, customTtl = null): expiry = Date.now() + (customTtl || this.ttl)
SimpleCacheSet(C, ttl, key, value, customTtl, t) ==
  LET expiry == t + (IF customTtl # Null /\ customTtl # 0 THEN customTtl ELSE ttl)
  IN [k \in DOMAIN C \cup {key} |->
        IF k = key THEN [value |-> value, expiry |-> expiry] ELSE C[k]]

\* get(key) with the test of the expiry left out.
SimpleCacheGet_NoExpiry(C, key, t) ==
  IF key \notin DOMAIN C THEN << >> ELSE <<C[key].value>>

\* get(key): undefined for a missing key and for one with Date.now() > expiry.
SimpleCacheGet(C, key, t) ==
  IF key \notin DOMAIN C THEN << >>
  ELSE IF t > C[key].expiry THEN << >>
  ELSE <<C[key].value>>

\* What get(key) leaves in the Map: an expired entry it met is deleted.
SimpleCacheAfterGet(C, key, t) ==
  IF key \in DOMAIN C /\ t > C[key].expiry THEN Remove(C, {key}) ELSE C

\* cleanup(), run by setInterval every minute: every expired entry is deleted.
SimpleCacheCleanup(C, t) == Remove(C, {k \in DOMAIN C : t > C[k].expiry})

\* class CacheManager: new SimpleCache(300000), new SimpleCache(1800000) and
\* new SimpleCache(60000).
TierTtl == [default |-> 300000, longTerm |-> 1800000, shortTerm |-> 60000]

NoCache == [default |-> << >>, longTerm |-> << >>, shortTerm |-> << >>]

\* get / getLongTerm / getShortTerm of the tier, and the cache they leave.
TierGet(M, tier, key, t) == SimpleCacheGet(M[tier], key, t)

TierAfterGet(M, tier, key, t) ==
  [M EXCEPT ![tier] = SimpleCacheAfterGet(M[tier], key, t)]

\* set / setLongTerm / setShortTerm of the tier: if (ttl) set(key, value, ttl)
\* else set(key, value).
TierSet(M, tier, key, value, ttl, t) ==
  [M EXCEPT ![tier] = SimpleCacheSet(M[tier], TierTtl[tier], key, value, ttl, t)]

\* ------------------------------------------------------------------ actions
\* handleRegistrationEvent(userAddress, referrerAddress, ...)
handleRegistrationEvent(userAddress, referrerAddress) ==
  LET saved == IF ~UserExists(users, userAddress)
               THEN users @@ (userAddress :> NewUser(referrerAddress))
               ELSE [users EXCEPT ![userAddress].referrerAddress = referrerAddress]
  IN /\ users' = saved
     /\ levels' = createLevelRelationships(levels, saved, userAddress, referrerAddress)
     /\ response' = Response("registration", "resolved", << >>, "info")
     /\ lateBound' = IF referrerAddress # 0 /\ ~UserExists(users, referrerAddress)
                     THEN lateBound \cup {<<userAddress, referrerAddress>>}
                     ELSE lateBound
     /\ reads' = << >>
     /\ cache' = cache
     /\ now' = now
     /\ scenario' = ScenarioNext("registration", userAddress, referrerAddress)
     /\ UNCHANGED <<investments, handlers>>

\* handleDepositEvent(userAddress, amount, token, event): the deposit is pushed
\* onto the user before the Investment is saved; a duplicate txHash makes that
\* save throw, which the handler catches and logs.
handleDepositEvent(userAddress, amount, txHash) ==
  LET found == IF UserExists(users, userAddress) THEN users
               ELSE users @@ (userAddress :> NewUser(Null))
      pushed == addDeposit(found, userAddress, amount, txHash)
  IN /\ Len(found[userAddress].deposits) < MaxDeposits
     /\ users' = pushed
     /\ IF TxRecorded(investments, txHash)
        THEN /\ response' = Response("depositEvent", "resolved", << >>, "error")
             /\ UNCHANGED <<investments, levels>>
        ELSE /\ investments' = Append(investments,
                                      NewInvestment(userAddress, amount, txHash))
             /\ levels' = updateLevelInvestments(levels, userAddress, amount)
             /\ response' = Response("depositEvent", "resolved", << >>, "info")
     /\ reads' = << >>
     /\ cache' = cache
     /\ now' = now
     /\ scenario' = ScenarioNext("deposit", userAddress, amount)
     /\ UNCHANGED <<handlers, lateBound>>

\* The entry Investment.findOne({ txHash }) returns.
FindInvestment(I, txHash) ==
  I[CHOOSE k \in 1..Len(I) : I[k].txHash = txHash /\ \A j \in 1..(k - 1) : I[j].txHash # txHash]

\* POST /investments without its findOne({ txHash }) test: the unique index
\* on txHash then makes investment.save() throw, which the route answers 500.
postInvestment_NoLookup(userAddress, amount, txHash) ==
  /\ reads' = << >>
  /\ cache' = cache
  /\ now' = now
  /\ scenario' = ScenarioNext("deposit", userAddress, amount)
  /\ UNCHANGED <<handlers, lateBound>>
  /\ IF amount = 0
     THEN /\ response' = Response("postInvestment", "400", << >>, "none")
          /\ UNCHANGED <<users, levels, investments>>
     ELSE IF ~UserExists(users, userAddress)
     THEN /\ response' = Response("postInvestment", "404", << >>, "none")
          /\ UNCHANGED <<users, levels, investments>>
     ELSE IF TxRecorded(investments, txHash)
     THEN /\ response' = Response("postInvestment", "500", << >>, "error")
          /\ UNCHANGED <<users, levels, investments>>
     ELSE /\ Len(users[userAddress].deposits) < MaxDeposits
          /\ investments' = Append(investments,
                                   NewInvestment(userAddress, amount, txHash))
          /\ users' = addDeposit(users, userAddress, amount, txHash)
          /\ levels' = updateLevelInvestmentsRoute(levels, users, userAddress, amount)
          /\ response' = Response("postInvestment", "201",
                                  <<NewInvestment(userAddress, amount, txHash)>>, "info")

\* POST /investments
postInvestment(userAddress, amount, txHash) ==
  /\ reads' = << >>
  /\ cache' = cache
  /\ now' = now
  /\ scenario' = ScenarioNext("deposit", userAddress, amount)
  /\ UNCHANGED <<handlers, lateBound>>
  /\ IF amount = 0
     THEN /\ response' = Response("postInvestment", "400", << >>, "none")
          /\ UNCHANGED <<users, levels, investments>>
     ELSE IF TxRecorded(investments, txHash)
     THEN /\ response' = Response("postInvestment", "409",
                                  <<FindInvestment(investments, txHash)>>, "none")
          /\ UNCHANGED <<users, levels, investments>>
     ELSE IF ~UserExists(users, userAddress)
     THEN /\ response' = Response("postInvestment", "404", << >>, "none")
          /\ UNCHANGED <<users, levels, investments>>
     ELSE /\ Len(users[userAddress].deposits) < MaxDeposits
          /\ investments' = Append(investments,
                                   NewInvestment(userAddress, amount, txHash))
          /\ users' = addDeposit(users, userAddress, amount, txHash)
          /\ levels' = updateLevelInvestmentsRoute(levels, users, userAddress, amount)
          /\ response' = Response("postInvestment", "201",
                                  <<NewInvestment(userAddress, amount, txHash)>>, "info")

\* PATCH /investments/:txHash/status
StatusInputs == {"pending", "confirmed", "failed", "refunded"}

patchInvestmentStatus(txHash, status) ==
  /\ IF status \notin {"pending", "confirmed", "failed"}
     THEN /\ response' = Response("patchStatus", "400", << >>, "none")
          /\ UNCHANGED investments
     ELSE IF ~TxRecorded(investments, txHash)
     THEN /\ response' = Response("patchStatus", "404", << >>, "none")
          /\ UNCHANGED investments
     ELSE LET k == CHOOSE j \in 1..Len(investments) :
                     /\ investments[j].txHash = txHash
                     /\ \A i \in 1..(j - 1) : investments[i].txHash # txHash
          IN /\ investments' = [investments EXCEPT ![k].status = status]
             /\ response' = Response("patchStatus", "200",
                                     <<[investments[k] EXCEPT !.status = status]>>, "info")
  /\ reads' = << >>
  /\ cache' = cache
  /\ now' = now
  /\ scenario' = ScenarioNext("patchStatus", 0, 0)
  /\ UNCHANGED <<users, levels, handlers, lateBound>>

\* handleTransactionEvent(userAddress, fromAddress, value, level, ...)
handleTransactionEvent(userAddress, fromAddress, amount, level) ==
  /\ \A k \in 1..Len(levels) : levels[k].totalEarnings < MaxEarnings
  /\ levels' = updateLevelEarnings(levels, userAddress, fromAddress, amount, level)
  /\ response' = Response("transaction", "resolved", << >>,
                          IF updateLevelEarnings(levels, userAddress, fromAddress,
                                                 amount, level) # levels
                          THEN "info" ELSE "none")
  /\ reads' = << >>
  /\ cache' = cache
  /\ now' = now
  /\ scenario' = ScenarioNext("transaction", userAddress, amount)
  /\ UNCHANGED <<users, investments, handlers, lateBound>>

\* POST /users/:walletAddress/setup-levels
setupLevels(walletAddress) ==
  /\ reads' = << >>
  /\ cache' = cache
  /\ now' = now
  /\ scenario' = ScenarioNext("setupLevels", walletAddress, 0)
  /\ UNCHANGED <<users, investments, handlers, lateBound>>
  /\ IF ~UserExists(users, walletAddress)
     THEN /\ response' = Response("setupLevels", "404", << >>, "none")
          /\ UNCHANGED levels
     ELSE /\ levels' = setupLevelsRows(levels, users, walletAddress)
          /\ response' = Response("setupLevels", "200", << >>, "info")

\* ------------------------------------------------------------ specification
Init ==
  /\ users = << >>
  /\ levels = << >>
  /\ investments = << >>
  /\ response = Response("none", "none", << >>, "none")
  /\ handlers = [p \in Procs |-> Idle]
  /\ scenario = 0
  /\ reads = << >>
  /\ cache = NoCache
  /\ now = 0
  /\ lateBound = {}
  /\ opCount = 0
  /\ sync = SyncIdle
  /\ historical = NotProcessing

\* One more request or event handled, while the run is within its length
\* bound.  The routes and the event handlers hold no reference to the sync
\* service or to the state of the historical processing.
Counted ==
  /\ opCount < MaxOps
  /\ opCount' = opCount + 1
  /\ UNCHANGED <<sync, historical>>

\* Wallet addresses and transaction hashes are opaque to the program, so an
\* address or hash that the stores have not seen yet is taken to be the lowest
\* unused one.
Lowest(S) == IF S = {} THEN {} ELSE {CHOOSE x \in S : \A y \in S : x <= y}

KnownAddr ==
  (DOMAIN users \cup {users[a].referrerAddress : a \in DOMAIN users}) \cap Addr

KnownTx ==
  {investments[k].txHash : k \in 1..Len(investments)}
    \cup UNION {{users[a].deposits[k].txHash : k \in 1..Len(users[a].deposits)} :
                a \in DOMAIN users}

WalletInputs == KnownAddr \cup Lowest(Addr \ KnownAddr)

ReferrerInputs(u) == ({0} \cup KnownAddr \cup Lowest(Addr \ (KnownAddr \cup {u}))) \ {u}

TxInputs == KnownTx \cup Lowest(TxHashes \ KnownTx)

RegistrationEvent ==
  /\ Counted
  /\ \E u \in WalletInputs : \E r \in ReferrerInputs(u) : handleRegistrationEvent(u, r)

DepositEvent ==
  /\ Counted
  /\ \E u \in WalletInputs, t \in TxInputs : handleDepositEvent(u, 100, t)

PostInvestment ==
  /\ Counted
  /\ \E u \in WalletInputs, a \in Amounts, t \in TxInputs : postInvestment(u, a, t)

\* A Transaction event is looked up by (from, user, level) and does nothing
\* when no row carries that key, so the events that name a row are all taken
\* and one event that names none stands for the rest.
TransactionInputs ==
  {<<levels[k].referrerAddress, levels[k].userAddress, levels[k].level>> :
     k \in 1..Len(levels)}
    \cup {<<CHOOSE a \in Addr : a \notin DOMAIN users \/ a = NumAddr, 0, 21>>}

TransactionEvent ==
  /\ Counted
  /\ \E e \in TransactionInputs : handleTransactionEvent(e[1], e[2], 1, e[3])

SetupLevels ==
  /\ Counted
  /\ \E w \in WalletInputs : setupLevels(w)

Next ==
  \/ RegistrationEvent
  \/ DepositEvent
  \/ PostInvestment
  \/ TransactionEvent
  \/ SetupLevels

Spec == Init /\ [][Next]_vars

\* Registrations in referral order only: a wallet registers once, under the
\* zero address or under a wallet that is registered already, and only
\* registered wallets deposit.
OrderedRegistration ==
  /\ Counted
  /\ \E u \in Lowest(Addr \ DOMAIN users) : \E r \in {0} \cup DOMAIN users :
       handleRegistrationEvent(u, r)

OrderedDepositEvent ==
  /\ Counted
  /\ \E u \in DOMAIN users, t \in TxInputs : handleDepositEvent(u, 100, t)

OrderedPostInvestment ==
  /\ Counted
  /\ \E u \in DOMAIN users, a \in Amounts, t \in TxInputs : postInvestment(u, a, t)

NextOrdered ==
  \/ OrderedRegistration
  \/ OrderedDepositEvent
  \/ OrderedPostInvestment

SpecOrdered == Init /\ [][NextOrdered]_vars

\* One referral chain of ChainLen wallets, 1 the root and each wallet the
\* referrer of the next; once the chain is longer than 21 the deepest wallet
\* deposits and setup-levels runs for the wallets at the top.
ChainRegistration ==
  /\ Cardinality(DOMAIN users) < ChainLen
  /\ handleRegistrationEvent(Cardinality(DOMAIN users) + 1, Cardinality(DOMAIN users))
  /\ UNCHANGED <<opCount, sync, historical>>

ChainDepositEvent ==
  /\ Counted
  /\ Cardinality(DOMAIN users) >= ChainLen - 1
  /\ \E t \in TxInputs : handleDepositEvent(Cardinality(DOMAIN users), 100, t)

ChainPostInvestment ==
  /\ Counted
  /\ Cardinality(DOMAIN users) >= ChainLen - 1
  /\ \E t \in TxInputs : postInvestment(Cardinality(DOMAIN users), 100, t)

ChainSetupLevels ==
  /\ Counted
  /\ Cardinality(DOMAIN users) >= ChainLen - 1
  /\ \E w \in {1, 2} : setupLevels(w)

NextChain ==
  \/ ChainRegistration
  \/ ChainDepositEvent
  \/ ChainPostInvestment
  \/ ChainSetupLevels

SpecChain == Init /\ [][NextChain]_vars

\* Registration handlers as the listener runs them: contract.on starts an
\* async callback per event and nothing waits for the previous one, so two
\* handlers interleave at their awaits.  A handler p is at handlers[p].pc;
\* each step below runs from one await to the next.
ConcWallets ==
  WalletInputs \cup {handlers[p].userAddress : p \in {q \in Procs : handlers[q].pc # "idle"}}

\* The contract registers a wallet under the zero address or under a wallet
\* registered before it, here one with a lower address.
ConcReferrers(u) == {0} \cup {a \in ConcWallets : a < u}

\* contract.on('Registration', async ...) calls handleRegistrationEvent, which
\* runs up to its first await, User.findByWallet(userAddress).
RegistrationStart(p) ==
  /\ handlers[p].pc = "idle"
  /\ opCount < MaxConcEvents
  /\ opCount' = opCount + 1
  /\ UNCHANGED <<sync, historical>>
  /\ \E u \in ConcWallets : \E r \in ConcReferrers(u) :
       handlers' = [handlers EXCEPT ![p] =
         [Idle EXCEPT !.pc = "findByWallet", !.userAddress = u, !.referrerAddress = r]]
  /\ UNCHANGED <<users, levels, investments, response, scenario, reads, cache, now, lateBound>>

\* let user = await User.findByWallet(userAddress); the branch taken builds or
\* updates the document and reaches await user.save().
RegistrationFindUser(p) ==
  /\ handlers[p].pc = "findByWallet"
  /\ handlers' = [handlers EXCEPT ![p].pc = "saveUser",
                                  ![p].found = UserExists(users, handlers[p].userAddress)]
  /\ UNCHANGED <<users, levels, investments, response, scenario, reads, cache, now, lateBound, opCount,
                  sync, historical>>

\* await user.save(): inserting a walletAddress that is in the collection by
\* now throws on the unique index, and the handler's catch logs it and ends
\* the handler; otherwise createLevelRelationships starts and getUplineChain
\* reaches its first await.
RegistrationSaveUser(p) ==
  LET h == handlers[p]
  IN /\ h.pc = "saveUser"
     /\ IF ~h.found /\ UserExists(users, h.userAddress)
        THEN /\ handlers' = [handlers EXCEPT ![p] = Idle]
             /\ response' = Response("registration", "resolved", << >>, "error")
             /\ UNCHANGED users
        ELSE /\ users' = IF ~h.found
                         THEN users @@ (h.userAddress :> NewUser(h.referrerAddress))
                         ELSE [users EXCEPT ![h.userAddress].referrerAddress = h.referrerAddress]
             /\ handlers' = [handlers EXCEPT ![p].pc = "getUplineChain",
                                             ![p].currentAddress = h.referrerAddress,
                                             ![p].uplineChain = << >>, ![p].i = 0]
             /\ UNCHANGED response
     /\ UNCHANGED <<levels, investments, scenario, reads, cache, now, lateBound, opCount,
                  sync, historical>>

\* One pass of the loop of getUplineChain, from its await User.findByWallet:
\* the walk goes on, or the chain is returned and createLevelRelationships
\* enters its own loop at i = 0.
RegistrationWalk(p) ==
  LET h == handlers[p]
  IN /\ h.pc = "getUplineChain"
     /\ IF /\ h.i < 21
           /\ UserExists(users, h.currentAddress)
           /\ Truthy(users[h.currentAddress].referrerAddress)
        THEN handlers' = [handlers EXCEPT
               ![p].uplineChain = Append(h.uplineChain, users[h.currentAddress].referrerAddress),
               ![p].currentAddress = users[h.currentAddress].referrerAddress,
               ![p].i = h.i + 1]
        ELSE handlers' = [handlers EXCEPT ![p].pc = "findOne", ![p].i = 0]
     /\ UNCHANGED <<users, levels, investments, response, scenario, reads, cache, now, lateBound, opCount,
                  sync, historical>>

\* The loop head of createLevelRelationships and its await Level.findOne: the
\* loop is over and the handler returns, or the row exists and the loop goes
\* to the next i, or the row is built and await levelRelation.save() reached.
RegistrationFindOne(p) ==
  LET h == handlers[p]
  IN /\ h.pc = "findOne"
     /\ IF ~RelationLoopContinues(h.i, h.uplineChain)
        THEN /\ handlers' = [handlers EXCEPT ![p] = Idle]
             /\ response' = Response("registration", "resolved", << >>, "info")
        ELSE /\ IF FindOneLevel(levels, h.userAddress, h.uplineChain[h.i + 1], h.i + 1) # 0
                THEN handlers' = [handlers EXCEPT ![p].i = h.i + 1]
                ELSE handlers' = [handlers EXCEPT ![p].pc = "saveLevel"]
             /\ UNCHANGED response
     /\ UNCHANGED <<users, levels, investments, scenario, reads, cache, now, lateBound, opCount,
                  sync, historical>>

\* await levelRelation.save(): the Level collection has no unique index, so
\* the insert goes through whatever the collection holds by now.
RegistrationSaveLevel(p) ==
  LET h == handlers[p]
  IN /\ h.pc = "saveLevel"
     /\ levels' = Append(levels, NewLevel(h.userAddress, h.uplineChain[h.i + 1], h.i + 1, 0))
     /\ handlers' = [handlers EXCEPT ![p].pc = "findOne", ![p].i = h.i + 1]
     /\ UNCHANGED <<users, investments, response, scenario, reads, cache, now, lateBound, opCount,
                  sync, historical>>

NextConc ==
  \E p \in Procs :
    \/ RegistrationStart(p)
    \/ RegistrationFindUser(p)
    \/ RegistrationSaveUser(p)
    \/ RegistrationWalk(p)
    \/ RegistrationFindOne(p)
    \/ RegistrationSaveLevel(p)

SpecConc == Init /\ [][NextConc]_vars

\* One deposit at a time, followed from await to await: the stores as a
\* reader finds them while handleDepositEvent or POST /investments is between
\* two of its writes.  The operation in flight is handlers[1].
AwaitRegistration ==
  /\ handlers[1].pc = "idle"
  /\ Counted
  /\ \E u \in Lowest(Addr \ DOMAIN users) : \E r \in {0} \cup DOMAIN users :
       handleRegistrationEvent(u, r)

\* contract.on('Deposit', ...) -> handleDepositEvent, up to its first await.
DepositStart ==
  /\ handlers[1].pc = "idle"
  /\ Counted
  /\ \E u \in WalletInputs, t \in TxInputs :
       handlers' = [handlers EXCEPT ![1] =
         [Idle EXCEPT !.pc = "deposit.findByWallet", !.userAddress = u,
                      !.amount = 100, !.txHash = t]]
  /\ UNCHANGED <<users, levels, investments, response, scenario, reads, cache, now, lateBound>>

\* let user = await User.findByWallet(userAddress), and for an unknown wallet
\* new User(...) and await user.save().
DepositFindByWallet ==
  LET h == handlers[1]
  IN /\ h.pc = "deposit.findByWallet"
     /\ users' = IF UserExists(users, h.userAddress) THEN users
                 ELSE users @@ (h.userAddress :> NewUser(Null))
     /\ handlers' = [handlers EXCEPT ![1].pc = "deposit.addDeposit"]
     /\ UNCHANGED <<levels, investments, response, scenario, reads, cache, now, lateBound, opCount,
                  sync, historical>>

\* await user.addDeposit(...)
DepositAddDeposit ==
  LET h == handlers[1]
  IN /\ h.pc = "deposit.addDeposit"
     /\ Len(users[h.userAddress].deposits) < MaxDeposits
     /\ users' = addDeposit(users, h.userAddress, h.amount, h.txHash)
     /\ handlers' = [handlers EXCEPT ![1].pc = "deposit.saveInvestment"]
     /\ UNCHANGED <<levels, investments, response, scenario, reads, cache, now, lateBound, opCount,
                  sync, historical>>

\* await investment.save(): a txHash in the ledger already makes it throw,
\* the catch of the handler logs the error and the handler is over.
DepositSaveInvestment ==
  LET h == handlers[1]
  IN /\ h.pc = "deposit.saveInvestment"
     /\ IF TxRecorded(investments, h.txHash)
        THEN /\ response' = Response("depositEvent", "resolved", << >>, "error")
             /\ handlers' = [handlers EXCEPT ![1] = Idle]
             /\ UNCHANGED investments
        ELSE /\ investments' = Append(investments,
                                      NewInvestment(h.userAddress, h.amount, h.txHash))
             /\ handlers' = [handlers EXCEPT ![1].pc = "deposit.updateLevelInvestments"]
             /\ UNCHANGED response
     /\ UNCHANGED <<users, levels, scenario, reads, cache, now, lateBound, opCount,
                  sync, historical>>

\* await this.updateLevelInvestments(...), then the success line.
DepositUpdateLevels ==
  LET h == handlers[1]
  IN /\ h.pc = "deposit.updateLevelInvestments"
     /\ levels' = updateLevelInvestments(levels, h.userAddress, h.amount)
     /\ response' = Response("depositEvent", "resolved", << >>, "info")
     /\ handlers' = [handlers EXCEPT ![1] = Idle]
     /\ UNCHANGED <<users, investments, scenario, reads, cache, now, lateBound, opCount,
                  sync, historical>>

\* router.post('/'): the required-field test, answered 400 before any await,
\* or on to await Investment.findOne({ txHash }).
PostStart ==
  /\ handlers[1].pc = "idle"
  /\ Counted
  /\ \E u \in WalletInputs, a \in Amounts, t \in TxInputs :
       IF a = 0
       THEN /\ response' = Response("postInvestment", "400", << >>, "none")
            /\ UNCHANGED handlers
       ELSE /\ handlers' = [handlers EXCEPT ![1] =
                 [Idle EXCEPT !.pc = "post.findOne", !.userAddress = u,
                              !.amount = a, !.txHash = t]]
            /\ UNCHANGED response
  /\ UNCHANGED <<users, levels, investments, scenario, reads, cache, now, lateBound>>

\* const existingInvestment = await Investment.findOne({ txHash }): 409, or
\* on to await User.findByWallet(userAddress).
PostFindOne ==
  LET h == handlers[1]
  IN /\ h.pc = "post.findOne"
     /\ IF TxRecorded(investments, h.txHash)
        THEN /\ response' = Response("postInvestment", "409",
                                     <<FindInvestment(investments, h.txHash)>>, "none")
             /\ handlers' = [handlers EXCEPT ![1] = Idle]
        ELSE /\ handlers' = [handlers EXCEPT ![1].pc = "post.findByWallet"]
             /\ UNCHANGED response
     /\ UNCHANGED <<users, levels, investments, scenario, reads, cache, now, lateBound, opCount,
                  sync, historical>>

\* const user = await User.findByWallet(userAddress): 404, or the Investment
\* is built and await investment.save() reached.
PostFindByWallet ==
  LET h == handlers[1]
  IN /\ h.pc = "post.findByWallet"
     /\ IF ~UserExists(users, h.userAddress)
        THEN /\ response' = Response("postInvestment", "404", << >>, "none")
             /\ handlers' = [handlers EXCEPT ![1] = Idle]
        ELSE /\ handlers' = [handlers EXCEPT ![1].pc = "post.saveInvestment"]
             /\ UNCHANGED response
     /\ UNCHANGED <<users, levels, investments, scenario, reads, cache, now, lateBound, opCount,
                  sync, historical>>

\* await investment.save()
PostSaveInvestment ==
  LET h == handlers[1]
  IN /\ h.pc = "post.saveInvestment"
     /\ Len(users[h.userAddress].deposits) < MaxDeposits
     /\ investments' = Append(investments,
                              NewInvestment(h.userAddress, h.amount, h.txHash))
     /\ handlers' = [handlers EXCEPT ![1].pc = "post.addDeposit"]
     /\ UNCHANGED <<users, levels, response, scenario, reads, cache, now, lateBound, opCount,
                  sync, historical>>

\* await user.addDeposit(...)
PostAddDeposit ==
  LET h == handlers[1]
  IN /\ h.pc = "post.addDeposit"
     /\ users' = addDeposit(users, h.userAddress, h.amount, h.txHash)
     /\ handlers' = [handlers EXCEPT ![1].pc = "post.updateLevelInvestments"]
     /\ UNCHANGED <<levels, investments, response, scenario, reads, cache, now, lateBound, opCount,
                  sync, historical>>

\* await updateLevelInvestments(...), then res.status(201)
PostUpdateLevels ==
  LET h == handlers[1]
  IN /\ h.pc = "post.updateLevelInvestments"
     /\ levels' = updateLevelInvestmentsRoute(levels, users, h.userAddress, h.amount)
     /\ response' = Response("postInvestment", "201",
                             <<NewInvestment(h.userAddress, h.amount, h.txHash)>>, "info")
     /\ handlers' = [handlers EXCEPT ![1] = Idle]
     /\ UNCHANGED <<users, investments, scenario, reads, cache, now, lateBound, opCount,
                  sync, historical>>

NextAwait ==
  \/ AwaitRegistration
  \/ DepositStart
  \/ DepositFindByWallet
  \/ DepositAddDeposit
  \/ DepositSaveInvestment
  \/ DepositUpdateLevels
  \/ PostStart
  \/ PostFindOne
  \/ PostFindByWallet
  \/ PostSaveInvestment
  \/ PostAddDeposit
  \/ PostUpdateLevels

SpecAwait == Init /\ [][NextAwait]_vars

\* The Investment ledger under its writers: deposits of registered wallets
\* through either entry point, and status changes through PATCH.
PatchInvestmentStatus ==
  /\ Counted
  /\ \E t \in TxInputs, st \in StatusInputs : patchInvestmentStatus(t, st)

NextLedger ==
  \/ OrderedRegistration
  \/ OrderedDepositEvent
  \/ OrderedPostInvestment
  \/ PatchInvestmentStatus

SpecLedger == Init /\ [][NextLedger]_vars

\* ------------------------------------------------------------ query routes
\* A path parameter is a string, here the sequence of its characters.
\* parseInt reads the leading decimal digits and gives NaN when there are
\* none; every comparison with NaN is false.
NaN == -2

Digits == <<"0", "1", "2", "3", "4", "5", "6", "7", "8", "9">>

IsDigit(c) == \E d \in 1..10 : Digits[d] = c

DigitValue(c) == (CHOOSE d \in 1..10 : Digits[d] = c) - 1

RECURSIVE ParseDigits(_, _)
ParseDigits(str, acc) ==
  IF str = << >> \/ ~IsDigit(Head(str)) THEN acc
  ELSE ParseDigits(Tail(str), 10 * acc + DigitValue(Head(str)))

parseInt(str) ==
  IF str = << >> \/ ~IsDigit(Head(str)) THEN NaN ELSE ParseDigits(str, 0)

JsLess(a, b) == a # NaN /\ b # NaN /\ a < b

\* The :level and :levelNumber parameters sent.
LevelParams ==
  {<<"0">>, <<"1">>, <<"2">>, <<"2", "1">>, <<"2", "2">>, <<"a", "l", "l">>}

RECURSIVE SumEarnings(_)
SumEarnings(rows) ==
  IF rows = << >> THEN 0 ELSE Head(rows).totalEarnings + SumEarnings(Tail(rows))

RECURSIVE SumInvestment(_)
SumInvestment(rows) ==
  IF rows = << >> THEN 0 ELSE Head(rows).totalInvestment + SumInvestment(Tail(rows))

\* Level.getLevelStatistics(level): the $group over the active rows of the
\* level, an empty result when there is no such row (averages left out).
getLevelStatistics(L, level) ==
  LET rows == SelectSeq(L, LAMBDA row : row.level = level /\ row.isActive)
  IN IF rows = << >> THEN << >>
     ELSE <<[totalUsers |-> Len(rows),
             totalInvestment |-> SumInvestment(rows),
             totalEarnings |-> SumEarnings(rows)]>>

\* if (level < 1 || level > 21) of GET /levels/stats/:level
LevelRejected(level) == JsLess(level, 1) \/ JsLess(21, level)

\* router.get('/stats/:level') of routes/levelRoutes.js
statsLevel(param) ==
  LET level == parseInt(param)
  IN IF LevelRejected(level)
     THEN /\ response' = Response("statsLevel", "400", << >>, "none")
          /\ reads' = << >>
     ELSE LET stats == getLevelStatistics(levels, level)
              result == IF Len(stats) > 0 THEN stats[1]
                        ELSE [totalUsers |-> 0, totalInvestment |-> 0, totalEarnings |-> 0]
          IN /\ response' = Response("statsLevel", "200",
                                     <<[level |-> level] @@ result>>, "none")
             /\ reads' = <<"Level">>

\* Level.getAllLevelsStatistics() and the loop of GET /levels/stats/all that
\* fills in the levels the $group has no entry for.
statsAllEntry(L, i) ==
  LET stat == getLevelStatistics(L, i)
  IN [level |-> i,
      totalUsers |-> IF Len(stat) > 0 THEN stat[1].totalUsers ELSE 0,
      totalInvestment |-> IF Len(stat) > 0 THEN stat[1].totalInvestment ELSE 0,
      totalEarnings |-> IF Len(stat) > 0 THEN stat[1].totalEarnings ELSE 0]

\* router.get('/stats/all') of routes/levelRoutes.js
statsAll ==
  /\ response' = Response("statsAll", "200",
                          <<[levels |-> [i \in 1..21 |-> statsAllEntry(levels, i)]]>>, "none")
  /\ reads' = <<"Level">>

\* The routes of routes/levelRoutes.js under /stats, in the order router.get
\* registers them: Express hands a request to the first route its path
\* matches, and a :parameter matches any segment.
LevelRoutes ==
  <<[isParam |-> TRUE, literal |-> << >>, handler |-> "statsLevel"],
    [isParam |-> FALSE, literal |-> <<"a", "l", "l">>, handler |-> "statsAll"]>>

RouteMatches(route, segment) == route.isParam \/ route.literal = segment

Dispatch(routes, segment) ==
  LET hits == {k \in 1..Len(routes) : RouteMatches(routes[k], segment)}
  IN routes[CHOOSE k \in hits : \A j \in hits : k <= j].handler

\* GET /api/levels/stats/<segment>
getLevelsStats(segment) ==
  /\ IF Dispatch(LevelRoutes, segment) = "statsLevel"
     THEN statsLevel(segment)
     ELSE statsAll
  /\ UNCHANGED <<users, levels, investments, handlers, scenario, cache, now, lateBound>>

\* ------------------------------------------------ routes/referralRoutes
\* $graphLookup from users, startWith walletAddress, walletAddress ->
\* referrerAddress, maxDepth: each user reached, once, with the depth it was
\* first reached at.
RECURSIVE GraphWalk(_, _, _, _, _)
GraphWalk(U, frontier, visited, depth, maxDepth) ==
  LET found == {a \in DOMAIN U : U[a].referrerAddress \in frontier} \ visited
  IN IF depth > maxDepth \/ found = {} THEN {}
     ELSE {<<a, depth>> : a \in found}
            \cup GraphWalk(U, found, visited \cup found, depth + 1, maxDepth)

graphLookup(U, walletAddress, maxDepth) == GraphWalk(U, {walletAddress}, {}, 0, maxDepth)

\* The fallback getUsersAtLevel of GET /referrals/level/...: the wallets it
\* returns, one entry per path it reaches them by.
RECURSIVE levelUsersFallback(_, _, _, _)
RECURSIVE FallbackEach(_, _, _, _, _)
FallbackEach(U, directRefs, n, targetLevel, currentLevel) ==
  IF n > Len(directRefs) THEN << >>
  ELSE levelUsersFallback(U, directRefs[n], targetLevel, currentLevel + 1)
         \o FallbackEach(U, directRefs, n + 1, targetLevel, currentLevel)

levelUsersFallback(U, currentReferrer, targetLevel, currentLevel) ==
  IF currentLevel > 21 THEN << >>
  ELSE IF currentLevel = targetLevel THEN ActiveReferrals(U, currentReferrer)
  ELSE FallbackEach(U, ActiveReferrals(U, currentReferrer), 1, targetLevel, currentLevel)

\* router.get('/level/:walletAddress/:levelNumber') of routes/referralRoutes.js.
\* The default tier is asked first and a hit is answered as it was stored;
\* a result is stored with cacheManager.set(cacheKey, result).  A maxDepth
\* that is negative or not a number makes the aggregation throw, which the
\* route answers 500.
referralLevelUsers(walletAddress, param) ==
  LET level == parseInt(param)
      cacheKey == <<"level_users", walletAddress, level>>
      cached == TierGet(cache, "default", cacheKey, now)
      looked == TierAfterGet(cache, "default", cacheKey, now)
  IN /\ IF cached # << >>
        THEN /\ response' = Response("levelUsers", "200", cached, "info")
             /\ reads' = << >>
             /\ cache' = looked
        ELSE IF ~UserExists(users, walletAddress)
        THEN /\ response' = Response("levelUsers", "404", << >>, "none")
             /\ reads' = <<"User">>
             /\ cache' = looked
        ELSE IF level = NaN \/ level - 1 < 0
        THEN /\ response' = Response("levelUsers", "500", << >>, "error")
             /\ reads' = <<"User", "User">>
             /\ cache' = looked
        ELSE LET wallets == {e[1] : e \in {x \in graphLookup(users, walletAddress, level - 1) :
                                             x[2] = level - 1}}
                 found == IF wallets # {} THEN SetToSeq(wallets)
                          ELSE levelUsersFallback(users, walletAddress, level, 1)
                 result == [level |-> level, users |-> found, count |-> Len(found)]
             IN /\ response' = Response("levelUsers", "200", <<result>>, "info")
                /\ reads' = IF wallets # {} THEN <<"User", "User">>
                            ELSE <<"User", "User", "User">>
                /\ cache' = TierSet(looked, "default", cacheKey, result, Null, now)
     /\ UNCHANGED <<users, levels, investments, handlers, scenario, now, lateBound>>

\* router.get('/tree-ultra-optimized/:walletAddress') asked without ?levels
\* and ?limit (21 and 100): the long-term tier is asked first, the tree comes
\* from one $graphLookup over the User collection, a level without users
\* counted 0, and is stored with cacheManager.setLongTerm(cacheKey, result,
\* 1800).
treeUltraOptimized(walletAddress) ==
  LET cacheKey == <<"referral_tree_ultra", walletAddress, 21, 100>>
      cachedResult == TierGet(cache, "longTerm", cacheKey, now)
      looked == TierAfterGet(cache, "longTerm", cacheKey, now)
  IN /\ IF cachedResult # << >>
        THEN /\ response' = Response("treeUltra", "200",
                                     <<[cached |-> TRUE, cacheTimestamp |-> now]
                                         @@ cachedResult[1]>>, "info")
             /\ reads' = << >>
             /\ cache' = looked
        ELSE IF ~UserExists(users, walletAddress)
        THEN /\ response' = Response("treeUltra", "404", << >>, "none")
             /\ reads' = <<"User">>
             /\ cache' = looked
        ELSE LET teamMembers == graphLookup(users, walletAddress, 21 - 1)
                 result == [referrerAddress |-> walletAddress,
                            levelStats |-> [level \in 1..21 |->
                                             [userCount |-> Cardinality({x \in teamMembers :
                                                                           x[2] + 1 = level})]],
                            totalTeamSize |-> Cardinality(teamMembers),
                            timestamp |-> now]
             IN /\ response' = Response("treeUltra", "200", <<result>>, "info")
                /\ reads' = <<"User", "User", "Investment">>
                /\ cache' = TierSet(looked, "longTerm", cacheKey, result, 1800, now)
     /\ UNCHANGED <<users, levels, investments, handlers, scenario, now, lateBound>>

\* ------------------------------------------------- routes/levelRoutes (query)
\* Every row of the collection, whoever its referrer is.
TeamRows_AnyReferrer(L, walletAddress) == L

\* Level.find({ referrerAddress: walletAddress, isActive: true })
TeamRows(L, walletAddress) ==
  SelectSeq(L, LAMBDA row : row.referrerAddress = walletAddress /\ row.isActive)

\* A JavaScript quotient a / b in units of 1 / scale, rounded as toFixed
\* rounds: 0 / 0 is NaN and a / 0 is Infinity.
Infinity == -3

JsQuotient(a, b, scale) ==
  IF b = 0 THEN (IF a = 0 THEN NaN ELSE Infinity)
  ELSE (a * scale + (b \div 2)) \div b

\* levelGroups[i] of GET /levels/user/:walletAddress
LevelGroup(rows, i) == SelectSeq(rows, LAMBDA row : row.level = i)

\* levelAnalytics.reduce((max, level) => level.statistics.totalEarnings >
\* max.statistics.totalEarnings ? level : max, levelAnalytics[0]).level
RECURSIVE TopLevel(_, _, _)
TopLevel(rows, i, max) ==
  IF i > 21 THEN max
  ELSE TopLevel(rows, i + 1,
                IF SumEarnings(LevelGroup(rows, i)) > SumEarnings(LevelGroup(rows, max))
                THEN i ELSE max)

\* Math.max(...levels, 0)
MaxOf(S) == IF S = {} THEN 0 ELSE CHOOSE x \in S : \A y \in S : y <= x

\* The quotient guarded as the routes guard it, den > 0 ? num / den : 0.
Guarded(num, den, scale) == IF den > 0 THEN JsQuotient(num, den, scale) ELSE 0

\* GET /levels/user/:walletAddress, the teamSummary of the response with its
\* performanceMetrics.  roi is in hundredths of a percent point as toFixed(2)
\* leaves it, the averages in millionths (toFixed(6)),
\* levelDistributionEfficiency (activeLevels / 21 * 100) in millionths.
teamSummary(L, walletAddress) ==
  LET rows == TeamRows(L, walletAddress)
      withUsers == {i \in 1..21 : Len(LevelGroup(rows, i)) > 0}
  IN [totalTeamSize |-> Len(rows),
      totalTeamInvestment |-> SumInvestment(rows),
      totalTeamEarnings |-> SumEarnings(rows),
      activeLevels |-> Cardinality(withUsers),
      maxLevel |-> MaxOf(withUsers \cup {0}),
      roi |-> Guarded(SumEarnings(rows) * 100, SumInvestment(rows), 100),
      averageInvestmentPerUser |-> Guarded(SumInvestment(rows), Len(rows), 1000000),
      averageEarningsPerUser |-> Guarded(SumEarnings(rows), Len(rows), 1000000),
      levelDistributionEfficiency |->
        JsQuotient(Cardinality(withUsers) * 100, 21, 1000000),
      topPerformingLevel |-> TopLevel(rows, 1, 1)]

\* levelAnalytics[i].statistics of GET /levels/user/:walletAddress.  The loop
\* adds the level to totalTeamInvestment and totalTeamEarnings and then
\* divides by them, so the percentages are taken of the totals of the levels
\* 1..i; they are in hundredths of a percent point (toFixed(2)).
UpToLevel(rows, i) == SelectSeq(rows, LAMBDA row : row.level <= i)

levelStatistics(rows, i) ==
  [level |-> i,
   totalUsers |-> Len(LevelGroup(rows, i)),
   totalInvestment |-> SumInvestment(LevelGroup(rows, i)),
   totalEarnings |-> SumEarnings(LevelGroup(rows, i)),
   investmentPercentage |->
     Guarded(SumInvestment(LevelGroup(rows, i)) * 100, SumInvestment(UpToLevel(rows, i)), 100),
   earningsPercentage |->
     Guarded(SumEarnings(LevelGroup(rows, i)) * 100, SumEarnings(UpToLevel(rows, i)), 100)]

\* router.get('/user/:walletAddress') of routes/levelRoutes.js
userLevelAnalytics(walletAddress) ==
  /\ IF ~UserExists(users, walletAddress)
     THEN /\ response' = Response("userLevels", "404", << >>, "none")
          /\ reads' = <<"User">>
     ELSE /\ response' = Response("userLevels", "200",
                                  <<[userAddress |-> walletAddress,
                                     teamSummary |-> teamSummary(levels, walletAddress),
                                     levelAnalytics |->
                                       [i \in 1..21 |->
                                          levelStatistics(TeamRows(levels, walletAddress), i)]]>>,
                                  "none")
          /\ reads' = <<"User", "Level", "Investment">>
  /\ UNCHANGED <<users, levels, investments, handlers, scenario, cache, now, lateBound>>

\* The $group by level of GET /levels/user/:walletAddress/summary, sorted by
\* level: one entry per level that has rows.
levelStatsByLevel(rows) ==
  LET ids == SetToSeq({rows[k].level : k \in 1..Len(rows)})
  IN [n \in 1..Len(ids) |->
        [id |-> ids[n],
         userCount |-> Len(LevelGroup(rows, ids[n])),
         totalInvestment |-> SumInvestment(LevelGroup(rows, ids[n])),
         totalEarnings |-> SumEarnings(LevelGroup(rows, ids[n]))]]

RECURSIVE SumField(_, _)
SumField(stats, field) ==
  IF stats = << >> THEN 0 ELSE Head(stats)[field] + SumField(Tail(stats), field)

\* quickStats of GET /levels/user/:walletAddress/summary
quickStats(L, walletAddress) ==
  LET levelStats == levelStatsByLevel(TeamRows(L, walletAddress))
  IN [totalTeamSize |-> SumField(levelStats, "userCount"),
      totalTeamInvestment |-> SumField(levelStats, "totalInvestment"),
      totalTeamEarnings |-> SumField(levelStats, "totalEarnings"),
      activeLevels |-> Len(levelStats),
      maxLevel |-> IF Len(levelStats) > 0
                   THEN MaxOf({levelStats[n].id : n \in 1..Len(levelStats)})
                   ELSE 0,
      roi |-> Guarded(SumField(levelStats, "totalEarnings") * 100,
                      SumField(levelStats, "totalInvestment"), 100)]

\* router.get('/user/:walletAddress/summary') of routes/levelRoutes.js
userLevelSummary(walletAddress) ==
  /\ IF ~UserExists(users, walletAddress)
     THEN /\ response' = Response("userSummary", "404", << >>, "none")
          /\ reads' = <<"User">>
     ELSE /\ response' = Response("userSummary", "200",
                                  <<[userAddress |-> walletAddress,
                                     quickStats |-> quickStats(levels, walletAddress)]>>,
                                  "none")
          /\ reads' = <<"User", "Level", "Investment">>
  /\ UNCHANGED <<users, levels, investments, handlers, scenario, cache, now, lateBound>>

\* --------------------------------------------- routes/referralRoutes (stats)
\* getUsersAtLevel(currentReferrer, targetLevel, currentLevel = 1) of
\* GET /referrals/tree-direct and GET /referrals/stats-direct: the entries
\* returned, named by their wallet, in the order they are pushed.
RECURSIVE getUsersAtLevel(_, _, _, _)
RECURSIVE DeeperUsers(_, _, _, _, _)
DeeperUsers(U, directReferrals, n, targetLevel, currentLevel) ==
  IF n > Len(directReferrals) THEN << >>
  ELSE getUsersAtLevel(U, directReferrals[n], targetLevel, currentLevel + 1)
         \o DeeperUsers(U, directReferrals, n + 1, targetLevel, currentLevel)

getUsersAtLevel(U, currentReferrer, targetLevel, currentLevel) ==
  IF currentLevel > 21 THEN << >>
  ELSE IF currentLevel = targetLevel THEN ActiveReferrals(U, currentReferrer)
  ELSE DeeperUsers(U, ActiveReferrals(U, currentReferrer), 1, targetLevel, currentLevel)

RECURSIVE SumLen(_)
SumLen(seqs) == IF seqs = << >> THEN 0 ELSE Len(Head(seqs)) + SumLen(Tail(seqs))

\* The ?levels= values sent to GET /referrals/tree-direct; << >> is a request
\* without the parameter.
TreeLevelParams == {<< >>, <<"2">>, <<"2", "2">>}

\* router.get('/tree-direct/:walletAddress'):
\* levels = parseInt(req.query.levels) || 21
treeDirect(walletAddress, param) ==
  LET parsed == parseInt(param)
      asked == IF parsed = NaN \/ parsed = 0 THEN 21 ELSE parsed
  IN /\ IF asked > 21
        THEN /\ response' = Response("treeDirect", "400", << >>, "none")
             /\ reads' = << >>
        ELSE IF ~UserExists(users, walletAddress)
        THEN /\ response' = Response("treeDirect", "404", << >>, "none")
             /\ reads' = <<"User">>
        ELSE LET tree == [level \in 1..asked |-> getUsersAtLevel(users, walletAddress, level, 1)]
             IN /\ response' = Response("treeDirect", "200",
                                        <<[referrerAddress |-> walletAddress,
                                           tree |-> tree,
                                           totalTeamSize |-> SumLen(tree)]>>, "none")
                /\ reads' = <<"User", "User", "Investment">>
     /\ UNCHANGED <<users, levels, investments, handlers, scenario, cache, now, lateBound>>

\* router.get('/stats/:walletAddress'): the level summary read from the
\* Level collection.
referralStats(walletAddress) ==
  /\ IF ~UserExists(users, walletAddress)
     THEN /\ response' = Response("stats", "404", << >>, "none")
          /\ reads' = <<"User">>
     ELSE LET levelStats == TeamRows(levels, walletAddress)
              levelSummary ==
                [i \in 1..21 |->
                   [userCount |-> Len(LevelGroup(levelStats, i)),
                    totalInvestment |-> SumInvestment(LevelGroup(levelStats, i)),
                    totalEarnings |-> SumEarnings(LevelGroup(levelStats, i))]]
          IN /\ response' = Response("stats", "200",
                                     <<[userAddress |-> walletAddress,
                                        directReferrals |-> ActiveReferrals(users, walletAddress),
                                        levelSummary |-> levelSummary,
                                        totalTeamSize |-> Len(levelStats)]>>, "none")
             /\ reads' = <<"User", "User", "Level">>
  /\ UNCHANGED <<users, levels, investments, handlers, scenario, cache, now, lateBound>>

\* router.get('/stats-direct/:walletAddress'): the level summary walked over
\* the User collection.  The default tier is asked first, before the user is
\* looked up, and the result is stored with cacheManager.set(cacheKey,
\* result, 300).
statsDirect(walletAddress) ==
  LET cacheKey == <<"referral_stats", walletAddress>>
      cachedResult == TierGet(cache, "default", cacheKey, now)
      looked == TierAfterGet(cache, "default", cacheKey, now)
  IN /\ IF cachedResult # << >>
        THEN /\ response' = Response("statsDirect", "200",
                                     <<[cached |-> TRUE, cacheTimestamp |-> now]
                                         @@ cachedResult[1]>>, "info")
             /\ reads' = << >>
             /\ cache' = looked
        ELSE IF ~UserExists(users, walletAddress)
        THEN /\ response' = Response("statsDirect", "404", << >>, "none")
             /\ reads' = <<"User">>
             /\ cache' = looked
        ELSE LET found == [level \in 1..21 |-> getUsersAtLevel(users, walletAddress, level, 1)]
                 result == [userAddress |-> walletAddress,
                            directReferrals |-> ActiveReferrals(users, walletAddress),
                            levelSummary |-> [level \in 1..21 |->
                                               [userCount |-> Len(found[level]),
                                                totalEarnings |-> 0]],
                            totalTeamSize |-> SumLen(found),
                            timestamp |-> now]
             IN /\ response' = Response("statsDirect", "200", <<result>>, "info")
                /\ reads' = <<"User", "User", "User", "Investment">>
                /\ cache' = TierSet(looked, "default", cacheKey, result, 300, now)
     /\ UNCHANGED <<users, levels, investments, handlers, scenario, now, lateBound>>

\* The time that passes between two operations, in milliseconds: up to and
\* just past the 300 and the 1800 the routes pass as ttl, and just past the
\* five minutes of the default tier.
TickSteps == {300, 301, 1801, 300001}

tick(d) ==
  /\ now' = now + d
  /\ UNCHANGED <<users, levels, investments, response, handlers, scenario, reads,
                 cache, lateBound>>

\* setInterval(() => this.cleanup(), 60000) of the three SimpleCache objects.
cleanup ==
  /\ cache' = [tier \in DOMAIN cache |-> SimpleCacheCleanup(cache[tier], now)]
  /\ UNCHANGED <<users, levels, investments, response, handlers, scenario, reads,
                 now, lateBound>>

\* ----------------------------------------------------- utils/cache (calls)
\* CacheManager.cached(key, asyncFunction, ttl, cacheType): asyncFunction is
\* given by what it resolves to, <<result>>, or << >> when it rejects.  A hit
\* and a computed result are returned alike.
cached(key, outcome, ttl, cacheType) ==
  LET tier == IF cacheType \in {"longTerm", "shortTerm"} THEN cacheType ELSE "default"
      cachedValue == TierGet(cache, tier, key, now)
      looked == TierAfterGet(cache, tier, key, now)
  IN /\ IF cachedValue # << >>
        THEN /\ response' = Response("cached", "resolved", cachedValue, "none")
             /\ cache' = looked
        ELSE IF outcome = << >>
        THEN /\ response' = Response("cached", "rejected", << >>, "error")
             /\ cache' = looked
        ELSE /\ response' = Response("cached", "resolved", outcome, "none")
             /\ cache' = TierSet(looked, tier, key, outcome[1], ttl, now)
     /\ reads' = << >>
     /\ UNCHANGED <<users, levels, investments, handlers, scenario, now, lateBound>>

\* A call of a method the object does not have: class SimpleCache defines
\* set, get, delete, clear, cleanup, keys and getStats, so del and flushAll
\* are undefined on it and calling them throws a TypeError before anything
\* is removed.
ThrowsTypeError(op) ==
  /\ response' = Response(op, "threw", << >>, "none")
  /\ reads' = << >>
  /\ UNCHANGED <<users, levels, investments, handlers, scenario, cache, now, lateBound>>

\* del(key) { return this.defaultCache.del(key); }
del(key) == ThrowsTypeError("del")

\* delLongTerm(key) { return this.longTermCache.del(key); }
delLongTerm(key) == ThrowsTypeError("delLongTerm")

\* delShortTerm(key) { return this.shortTermCache.del(key); }
delShortTerm(key) == ThrowsTypeError("delShortTerm")

\* clearAll(): this.defaultCache.flushAll() is its first statement.
clearAll == ThrowsTypeError("clearAll")

\* new RegExp(pattern).test(key) for the patterns sent, which are key prefixes.
PatternMatches(pattern, key) == key[1] = pattern

\* clearByPattern(pattern): the keys of the three tiers are listed and
\* filtered, and del is called on the first one that matches; without a
\* match the call logs and returns.
clearByPattern(pattern) ==
  IF \E tier \in DOMAIN cache : \E key \in DOMAIN cache[tier] : PatternMatches(pattern, key)
  THEN ThrowsTypeError("clearByPattern")
  ELSE /\ response' = Response("clearByPattern", "returned", << >>, "info")
       /\ reads' = << >>
       /\ UNCHANGED <<users, levels, investments, handlers, scenario, cache, now, lateBound>>

\* The status values sent to PATCH /users/:walletAddress/status.
UserStatusInputs == {"active", "inactive", "deleted"}

\* router.patch('/:walletAddress/status') of routes/userRoutes.js
patchUserStatus(walletAddress, status) ==
  /\ IF status \notin {"active", "inactive", "suspended"}
     THEN /\ response' = Response("userStatus", "400", << >>, "none")
          /\ users' = users
     ELSE IF ~UserExists(users, walletAddress)
     THEN /\ response' = Response("userStatus", "404", << >>, "none")
          /\ users' = users
     ELSE /\ response' = Response("userStatus", "200", << >>, "info")
          /\ users' = [users EXCEPT ![walletAddress].status = status]
  /\ reads' = << >>
  /\ UNCHANGED <<levels, investments, handlers, scenario, cache, now, lateBound>>

\* The stores built by registrations in referral order, deposits through
\* POST /investments and commission events, and the query routes read on
\* them.
GetLevelsStats ==
  /\ Counted
  /\ \E segment \in LevelParams : getLevelsStats(segment)

GetReferralLevelUsers ==
  /\ Counted
  /\ \E w \in WalletInputs, param \in LevelParams : referralLevelUsers(w, param)

GetUserLevels ==
  /\ Counted
  /\ \E w \in WalletInputs : userLevelAnalytics(w)

GetUserSummary ==
  /\ Counted
  /\ \E w \in WalletInputs : userLevelSummary(w)

NextQuery ==
  \/ OrderedRegistration
  \/ OrderedPostInvestment
  \/ TransactionEvent
  \/ GetLevelsStats
  \/ GetReferralLevelUsers
  \/ GetUserLevels
  \/ GetUserSummary

SpecQuery == Init /\ [][NextQuery]_vars

\* The summary routes on any content of the Level collection: three
\* registered wallets in a chain, and up to MaxRows rows of wallet 3: active
\* rows under wallet 1 or 2 at the first or the last level, with or without
\* investment and earnings, and a row that was set inactive.
StoredRows ==
  [userAddress : {3}, referrerAddress : {1, 2}, level : {1, 21},
   totalInvestment : {0, 100}, totalEarnings : {0, 1}, isActive : {TRUE}]
    \cup {[userAddress |-> 3, referrerAddress |-> 1, level |-> 21,
            totalInvestment |-> 100, totalEarnings |-> 1, isActive |-> FALSE]}

InitStore ==
  /\ users = (1 :> NewUser(0)) @@ (2 :> NewUser(1)) @@ (3 :> NewUser(2))
  /\ levels \in UNION {[1..n -> StoredRows] : n \in 0..MaxRows}
  /\ investments = << >>
  /\ response = Response("none", "none", << >>, "none")
  /\ handlers = [p \in Procs |-> Idle]
  /\ scenario = 0
  /\ reads = << >>
  /\ cache = NoCache
  /\ now = 0
  /\ lateBound = {}
  /\ opCount = 0
  /\ sync = SyncIdle
  /\ historical = NotProcessing

StoreUserLevels ==
  /\ \E w \in WalletInputs : userLevelAnalytics(w)
  /\ UNCHANGED <<opCount, sync, historical>>

StoreUserSummary ==
  /\ \E w \in WalletInputs : userLevelSummary(w)
  /\ UNCHANGED <<opCount, sync, historical>>

NextStore ==
  \/ StoreUserLevels
  \/ StoreUserSummary

SpecStore == InitStore /\ [][NextStore]_vars

\* The walk of GET /referrals/tree-direct on any shape of the User
\* collection: every wallet registered, under the zero address or under any
\* other wallet, and the status of the first two wallets changed through the
\* PATCH route.
InitDirectory ==
  /\ users \in {U \in [Addr -> [referrerAddress : EventAddr,
                                status : {"active"},
                                deposits : {<< >>}]] :
                  \A a \in Addr : U[a].referrerAddress # a}
  /\ levels = << >>
  /\ investments = << >>
  /\ response = Response("none", "none", << >>, "none")
  /\ handlers = [p \in Procs |-> Idle]
  /\ scenario = 0
  /\ reads = << >>
  /\ cache = NoCache
  /\ now = 0
  /\ lateBound = {}
  /\ opCount = 0
  /\ sync = SyncIdle
  /\ historical = NotProcessing

PatchUserStatus ==
  /\ \E w \in {0, 1, 2}, status \in UserStatusInputs : patchUserStatus(w, status)
  /\ UNCHANGED <<opCount, sync, historical>>

GetTreeDirect ==
  /\ \E w \in EventAddr, param \in TreeLevelParams : treeDirect(w, param)
  /\ UNCHANGED <<opCount, sync, historical>>

NextDirect ==
  \/ PatchUserStatus
  \/ GetTreeDirect

SpecDirect == InitDirectory /\ [][NextDirect]_vars

\* The two statistics routes read on the stores that registrations in
\* referral order build.
GetReferralStats ==
  /\ Counted
  /\ \E w \in WalletInputs : referralStats(w)

GetStatsDirect ==
  /\ Counted
  /\ \E w \in WalletInputs : statsDirect(w)

Tick ==
  /\ Counted
  /\ \E d \in TickSteps : tick(d)

CacheCleanup ==
  /\ cleanup
  /\ UNCHANGED <<opCount, sync, historical>>

NextCompare ==
  \/ OrderedRegistration
  \/ GetReferralStats
  \/ GetStatsDirect
  \/ Tick
  \/ CacheCleanup

SpecCompare == Init /\ [][NextCompare]_vars

\* The cached routes read between registrations, deposits and commission
\* events while time passes.
GetCachedLevelUsers ==
  /\ Counted
  /\ \E w \in WalletInputs, param \in {<<"1">>, <<"2">>} : referralLevelUsers(w, param)

GetTreeUltra ==
  /\ Counted
  /\ \E w \in WalletInputs : treeUltraOptimized(w)

NextCache ==
  \/ OrderedRegistration
  \/ OrderedDepositEvent
  \/ TransactionEvent
  \/ GetStatsDirect
  \/ GetCachedLevelUsers
  \/ GetTreeUltra
  \/ Tick
  \/ CacheCleanup

SpecCache == Init /\ [][NextCache]_vars

\* The calls of the cache manager itself: a key of each tier, with and
\* without a ttl of its own, and functions resolving to 0, to 7 or rejecting.
CacheKeys == {<<"stats", 1>>, <<"tree", 1>>}

CachedInputs ==
  {[key |-> <<"stats", 1>>, ttl |-> 300, cacheType |-> "default"],
   [key |-> <<"stats", 1>>, ttl |-> Null, cacheType |-> "shortTerm"],
   [key |-> <<"tree", 1>>, ttl |-> Null, cacheType |-> "longTerm"]}

CachedCall ==
  /\ Counted
  /\ \E in \in CachedInputs, outcome \in {<< >>, <<0>>, <<7>>} :
       cached(in.key, outcome, in.ttl, in.cacheType)

Del ==
  /\ Counted
  /\ \E key \in CacheKeys : del(key)

DelLongTerm ==
  /\ Counted
  /\ \E key \in CacheKeys : delLongTerm(key)

DelShortTerm ==
  /\ Counted
  /\ \E key \in CacheKeys : delShortTerm(key)

ClearAll ==
  /\ Counted
  /\ clearAll

ClearByPattern ==
  /\ Counted
  /\ \E pattern \in {"stats", "tree", "level"} : clearByPattern(pattern)

NextManager ==
  \/ CachedCall
  \/ Del
  \/ DelLongTerm
  \/ DelShortTerm
  \/ ClearAll
  \/ ClearByPattern
  \/ Tick
  \/ CacheCleanup

SpecManager == Init /\ [][NextManager]_vars

\* ------------------------------------------------ sync service (part_009)
\* getInactiveUserAddresses(): the wallets of the users with status inactive.
getInactiveUserAddresses(U) == {a \in DOMAIN U : U[a].status = "inactive"}

\* User.updateMany({status: 'active', 'deposits.0': {$exists: false},
\* registrationTime: {$lt: ninetyDaysAgo}}, {$set: {status: 'inactive'}});
\* before90Days holds the wallets whose registrationTime is that old.
markUsersInactive(U, before90Days) ==
  [a \in DOMAIN U |->
     IF U[a].status = "active" /\ U[a].deposits = << >> /\ a \in before90Days
     THEN [U[a] EXCEPT !.status = "inactive"]
     ELSE U[a]]

markLevelsInactive_DescendantOnly(L, inactive) ==
  [k \in 1..Len(L) |->
     IF L[k].isActive /\ L[k].userAddress \in inactive
     THEN [L[k] EXCEPT !.isActive = FALSE]
     ELSE L[k]]

\* Level.updateMany({isActive: true, $or: [{userAddress: {$in: inactive}},
\* {referrerAddress: {$in: inactive}}]}, {$set: {isActive: false}})
markLevelsInactive(L, inactive) ==
  [k \in 1..Len(L) |->
     IF L[k].isActive /\ (L[k].userAddress \in inactive \/ L[k].referrerAddress \in inactive)
     THEN [L[k] EXCEPT !.isActive = FALSE]
     ELSE L[k]]

\* finally { this.isRunning = false } of performSync, for the call c.
Finally(c) == [isRunning |-> FALSE, pc |-> [sync.pc EXCEPT ![c] = "none"]]

performSync_NoGuard(c) ==
  /\ sync.pc[c] = "none"
  /\ sync' = [isRunning |-> TRUE, pc |-> [sync.pc EXCEPT ![c] = "syncUserStatistics"]]
  /\ response' = Response("performSync", "started", << >>, "info")
  /\ reads' = << >>
  /\ UNCHANGED <<users, levels, investments, handlers, scenario, cache, now, lateBound,
                 opCount, historical>>

\* performSync() up to its first await: the call returns at once when a run
\* is in progress, and otherwise sets isRunning and enters syncUserStatistics.
performSync(c) ==
  /\ sync.pc[c] = "none"
  /\ IF sync.isRunning
     THEN /\ sync' = sync
          /\ response' = Response("performSync", "skipped", << >>, "info")
     ELSE /\ sync' = [isRunning |-> TRUE,
                      pc |-> [sync.pc EXCEPT ![c] = "syncUserStatistics"]]
          /\ response' = Response("performSync", "started", << >>, "info")
  /\ reads' = << >>
  /\ UNCHANGED <<users, levels, investments, handlers, scenario, cache, now, lateBound,
                 opCount, historical>>

\* await this.syncUserStatistics() and await this.syncLevelStatistics(): both
\* read the stores and log.  A step that rejects is caught by performSync,
\* which logs the error and leaves through finally.
syncStatistics(c, step, next, outcome) ==
  /\ sync.pc[c] = step
  /\ IF outcome = "resolved"
     THEN /\ sync' = [sync EXCEPT !.pc[c] = next]
          /\ response' = Response(step, "resolved", << >>, "info")
     ELSE /\ sync' = Finally(c)
          /\ response' = Response(step, "rejected", << >>, "error")
  /\ reads' = << >>
  /\ UNCHANGED <<users, levels, investments, handlers, scenario, cache, now, lateBound,
                 opCount, historical>>

\* await this.cleanupInactiveRecords(), the last step of performSync, and the
\* finally block that follows it.
cleanupInactiveRecords(c, before90Days) ==
  /\ sync.pc[c] = "cleanupInactiveRecords"
  /\ users' = markUsersInactive(users, before90Days)
  /\ levels' = markLevelsInactive(levels, getInactiveUserAddresses(users'))
  /\ sync' = Finally(c)
  /\ response' = Response("cleanupInactiveRecords", "resolved", << >>, "info")
  /\ reads' = << >>
  /\ UNCHANGED <<investments, handlers, scenario, cache, now, lateBound, opCount,
                 historical>>

\* A call of performSync(): the initial sync of start(), or a call by any
\* holder of the service object that startSyncService() returns.
PerformSync == \E c \in SyncCalls : performSync(c)

\* cron.schedule('*/5 * * * *', ...): the callback calls performSync when
\* isRunning is false and does nothing otherwise.
CronTick == ~sync.isRunning /\ performSync("cron")

SyncOutcomes == {"resolved", "rejected"}

SyncUserStatistics ==
  \E c \in SyncCalls, outcome \in SyncOutcomes :
    syncStatistics(c, "syncUserStatistics", "syncLevelStatistics", outcome)

SyncLevelStatistics ==
  \E c \in SyncCalls, outcome \in SyncOutcomes :
    syncStatistics(c, "syncLevelStatistics", "cleanupInactiveRecords", outcome)

\* The users that the 90 days rule can mark are those that are active and
\* hold no deposit; any of them may have registered that long ago.
CleanupInactiveRecords ==
  \E c \in SyncCalls :
    \E before90Days \in SUBSET {a \in DOMAIN users :
                                  users[a].status = "active" /\ users[a].deposits = << >>} :
      cleanupInactiveRecords(c, before90Days)

\* The sync service at work while users register, deposit and have their
\* status changed through the PATCH route.
NextSync ==
  \/ OrderedRegistration
  \/ OrderedDepositEvent
  \/ PatchUserStatus
  \/ PerformSync
  \/ CronTick
  \/ SyncUserStatistics
  \/ SyncLevelStatistics
  \/ CleanupInactiveRecords

SpecSync == Init /\ [][NextSync]_vars

\* ------------------------------------- historical processing (part_010)
\* The logs that rpcManager.getLogs returns for the block range of one batch:
\* the Registration logs and the Deposit logs, each in block order.
RegistrationLogs ==
  {<< >>,
   <<[user |-> 1, referrer |-> 0]>>,
   <<[user |-> 2, referrer |-> 1]>>,
   <<[user |-> 1, referrer |-> 0], [user |-> 2, referrer |-> 1]>>}

DepositLogs ==
  {<< >>,
   <<[addr |-> 1, amount |-> 100, txHash |-> 1]>>,
   <<[addr |-> 2, amount |-> 100, txHash |-> 2]>>}

\* The blocks startBlock..currentBlock, cut into batches of batchSize blocks.
HistoricalChains ==
  [1..NumBatches -> [registrationLogs : RegistrationLogs, depositLogs : DepositLogs]]

LogLoops_DepositsFirst == <<"depositLogs", "registrationLogs">>

\* The two loops of a batch, in the order of the code.
LogLoops == <<"registrationLogs", "depositLogs">>

\* fromBlock += batchSize: the next batch after the delay, or the end of the
\* loop and finally { this.isProcessingHistorical = false }.
NextBatch(h) ==
  IF h.batch < Len(h.chain)
  THEN [h EXCEPT !.pc = "getLogs", !.batch = @ + 1, !.k = 0]
  ELSE [h EXCEPT !.pc = "none", !.isProcessingHistorical = FALSE, !.k = 0]

\* The control of a batch after a step: a loop whose logs are used up is
\* left for the loop after it, and the second loop for the next batch.
RECURSIVE Settle(_)
Settle(h) ==
  IF h.pc \notin {LogLoops[1], LogLoops[2]} THEN h
  ELSE IF h.k <= Len(h.chain[h.batch][h.pc]) THEN h
  ELSE IF h.pc = LogLoops[1] THEN Settle([h EXCEPT !.pc = LogLoops[2], !.k = 1])
  ELSE NextBatch(h)

\* processHistoricalEvents() up to the first getLogs: a call made while the
\* processing is in progress returns at once.
processHistoricalEvents(chain) ==
  /\ IF historical.isProcessingHistorical
     THEN /\ historical' = historical
          /\ response' = Response("processHistoricalEvents", "skipped", << >>, "info")
     ELSE /\ historical' = [NotProcessing EXCEPT !.isProcessingHistorical = TRUE,
                                                 !.pc = "getLogs", !.chain = chain,
                                                 !.batch = 1]
          /\ response' = Response("processHistoricalEvents", "started", << >>, "info")
  /\ reads' = << >>
  /\ UNCHANGED <<users, levels, investments, handlers, scenario, cache, now, lateBound,
                 opCount, sync>>

\* The two awaits of rpcManager.getLogs of a batch.  When one rejects the
\* batch is logged and left, and the loop goes on with the next batch.
getLogs(outcome) ==
  /\ historical.pc = "getLogs"
  /\ IF outcome = "resolved"
     THEN /\ historical' = Settle([historical EXCEPT !.pc = LogLoops[1], !.k = 1])
          /\ response' = Response("getLogs", "resolved", << >>, "info")
     ELSE /\ historical' = NextBatch(historical)
          /\ response' = Response("getLogs", "rejected", << >>, "warn")
  /\ reads' = << >>
  /\ UNCHANGED <<users, levels, investments, handlers, scenario, cache, now, lateBound,
                 opCount, sync>>

\* The log at hand is handled and the loop moves on.
Handled(kind) ==
  Settle([historical EXCEPT
            !.k = @ + 1,
            !.handled = Append(@, [kind |-> kind, batch |-> historical.batch,
                                   k |-> historical.k])])

\* The start() of the listener calls processHistoricalEvents once; a second
\* call can only meet it in progress, and then the chain is not read.
ProcessHistoricalEvents ==
  /\ historical.chain = << >> \/ historical.isProcessingHistorical
  /\ \E chain \in IF historical.isProcessingHistorical
                   THEN {historical.chain}
                   ELSE HistoricalChains :
       processHistoricalEvents(chain)

GetLogs == \E outcome \in {"resolved", "rejected"} : getLogs(outcome)

\* for (const log of registrationLogs) await this.handleRegistrationEvent(...)
HandleRegistrationLog ==
  /\ historical.pc = "registrationLogs"
  /\ LET log == historical.chain[historical.batch].registrationLogs[historical.k]
     IN handleRegistrationEvent(log.user, log.referrer)
  /\ historical' = Handled("Registration")
  /\ UNCHANGED <<opCount, sync>>

\* for (const log of depositLogs) await this.handleDepositEvent(...)
HandleDepositLog ==
  /\ historical.pc = "depositLogs"
  /\ LET log == historical.chain[historical.batch].depositLogs[historical.k]
     IN handleDepositEvent(log.addr, log.amount, log.txHash)
  /\ historical' = Handled("Deposit")
  /\ UNCHANGED <<opCount, sync>>

NextHistorical ==
  \/ ProcessHistoricalEvents
  \/ GetLogs
  \/ HandleRegistrationLog
  \/ HandleDepositLog

SpecHistorical == Init /\ [][NextHistorical]_vars

\* ------------------------------------------ routes/referralRoutes (upline)
\* The ?levels= values sent to GET /referrals/upline; << >> is a request
\* without the parameter.
UplineParams == {<< >>, <<"2">>, <<"2", "5">>}

\* const maxLevels = parseInt(req.query.levels) || 21
UplineMaxLevels(param) ==
  IF parseInt(param) = NaN \/ parseInt(param) = 0 THEN 21 ELSE parseInt(param)

\* Level.findOne({userAddress, referrerAddress, level, isActive: true}) as the
\* sequence of its first hit, empty when there is none.
FindActiveLevel(L, userAddress, referrerAddress, level) ==
  LET hits == SelectSeq(L, LAMBDA row : /\ row.userAddress = userAddress
                                       /\ row.referrerAddress = referrerAddress
                                       /\ row.level = level
                                       /\ row.isActive)
  IN IF hits = << >> THEN << >> ELSE <<Head(hits)>>

\* while (currentAddress && level <= maxLevels) { ... } of the upline route.
RECURSIVE UplineLoop(_, _, _, _, _, _)
UplineLoop(U, L, walletAddress, currentAddress, level, maxLevels) ==
  IF ~(Truthy(currentAddress) /\ level <= maxLevels) THEN << >>
  ELSE IF ~UserExists(U, currentAddress) THEN << >>
  ELSE LET levelData == FindActiveLevel(L, walletAddress, currentAddress, level)
       IN <<[level |-> level,
             userAddress |-> currentAddress,
             status |-> U[currentAddress].status,
             totalInvestment |-> IF levelData = << >> THEN 0
                                 ELSE levelData[1].totalInvestment,
             totalEarnings |-> IF levelData = << >> THEN 0
                               ELSE levelData[1].totalEarnings,
             depositCount |-> Len(U[currentAddress].deposits)]>>
            \o UplineLoop(U, L, walletAddress, U[currentAddress].referrerAddress,
                          level + 1, maxLevels)

\* router.get('/upline/:walletAddress')
uplineRoute(walletAddress, param) ==
  /\ IF ~UserExists(users, walletAddress)
     THEN response' = Response("upline", "404", << >>, "none")
     ELSE LET uplineChain == UplineLoop(users, levels, walletAddress,
                                        users[walletAddress].referrerAddress, 1,
                                        UplineMaxLevels(param))
          IN response' = Response("upline", "200",
                                  <<[userAddress |-> walletAddress,
                                     uplineChain |-> uplineChain,
                                     totalUplineUsers |-> Len(uplineChain)]>>, "none")
  /\ reads' = << >>
  /\ UNCHANGED <<users, levels, investments, handlers, scenario, cache, now, lateBound>>

\* The walks on any shape of the User collection, also one in which the
\* referrers form a cycle or a wallet is its own referrer: one registration,
\* deposit, setup or query on each directory.
InitCycle ==
  /\ users \in [Addr -> [referrerAddress : EventAddr,
                         status : {"active"},
                         deposits : {<< >>}]]
  /\ levels = << >>
  /\ investments = << >>
  /\ response = Response("none", "none", << >>, "none")
  /\ handlers = [p \in Procs |-> Idle]
  /\ scenario = 0
  /\ reads = << >>
  /\ cache = NoCache
  /\ now = 0
  /\ lateBound = {}
  /\ opCount = 0
  /\ sync = SyncIdle
  /\ historical = NotProcessing

Once ==
  /\ opCount = 0
  /\ opCount' = 1
  /\ UNCHANGED <<sync, historical>>

CycleRegistration ==
  /\ Once
  /\ \E u \in Addr, r \in EventAddr : handleRegistrationEvent(u, r)

CyclePostInvestment ==
  /\ Once
  /\ \E u \in Addr : postInvestment(u, 100, 1)

CycleSetupLevels ==
  /\ Once
  /\ \E w \in Addr : setupLevels(w)

CycleTreeDirect ==
  /\ Once
  /\ \E w \in Addr, param \in TreeLevelParams : treeDirect(w, param)

CycleUpline ==
  /\ Once
  /\ \E w \in Addr, param \in UplineParams : uplineRoute(w, param)

NextCycle ==
  \/ CycleRegistration
  \/ CyclePostInvestment
  \/ CycleSetupLevels
  \/ CycleTreeDirect
  \/ CycleUpline

SpecCycle == InitCycle /\ [][NextCycle]_vars

\* ------------------------------------------------- vocabulary of the claims
Key(row) == <<row.userAddress, row.referrerAddress, row.level>>

Keys(L) == {Key(L[k]) : k \in 1..Len(L)}

KeysOf(L, descendant) == {key \in Keys(L) : key[1] = descendant}

\* The referral forest as the User Directory holds it: the upline hops of a
\* user, nearest first.  The zero address and null stand for "no referrer".
RECURSIVE Hops(_, _, _)
Hops(U, a, n) ==
  IF n = 0 \/ a \notin DOMAIN U THEN << >>
  ELSE IF U[a].referrerAddress \in {Null, 0} THEN << >>
       ELSE <<U[a].referrerAddress>> \o Hops(U, U[a].referrerAddress, n - 1)

\* The sum of the confirmed ledger amounts of one depositor, and of a set.
RECURSIVE ConfirmedDeposits(_, _)
ConfirmedDeposits(I, depositor) ==
  IF I = << >> THEN 0
  ELSE (IF Head(I).userAddress = depositor /\ Head(I).status = "confirmed"
        THEN Head(I).amount ELSE 0) + ConfirmedDeposits(Tail(I), depositor)

RECURSIVE ConfirmedDepositsOf(_, _)
ConfirmedDepositsOf(I, depositors) ==
  IF depositors = {} THEN 0
  ELSE LET d == CHOOSE x \in depositors : TRUE
       IN ConfirmedDeposits(I, d) + ConfirmedDepositsOf(I, depositors \ {d})

\* The users that have A among their first 21 upline hops.
Descendants(U, A) ==
  {d \in DOMAIN U : \E i \in 1..Len(Hops(U, d, 21)) : Hops(U, d, 21)[i] = A}

\* Investment of a row found by key, 0 when the key is absent.
InvestmentAt(L, descendant, ancestor, level) ==
  LET hits == {k \in 1..Len(L) : Key(L[k]) = <<descendant, ancestor, level>>}
  IN IF hits = {} THEN 0 ELSE L[CHOOSE k \in hits : TRUE].totalInvestment

\* ------------------------------------------------------------------- claims
\* C1 (as claimed): after Registration events only, each user registered
\* after its referrer, the rows of every user D carry exactly the levels
\* 1..min(K,21), K the length of D's referrer chain, and the row at level i
\* has D's i-th upline hop as ancestor.
C1_ChainIntegrity ==
  investments = << >> =>
    \A d \in DOMAIN users :
      KeysOf(levels, d) =
        {<<d, Hops(users, d, 21)[i], i>> : i \in 1..Len(Hops(users, d, 21))}

\* C2 (as claimed): with every depositor registered (and so materialized)
\* before it deposits, for every ancestor A the totalInvestment of the rows
\* with ancestor A adds up to the confirmed deposits of A's descendants
\* within 21 hops.
C2_InvestmentConservation ==
  \A A \in DOMAIN users :
    SumInvestment(SelectSeq(levels, LAMBDA row : row.referrerAddress = A))
      = ConfirmedDepositsOf(investments, Descendants(users, A))

\* C4 (as claimed): when Registration handlers run concurrently, interleaved
\* at their awaits, the rows of the store never hold the same (descendant,
\* ancestor, level) key twice.
C4_SerializedWrites ==
  \A i, j \in 1..Len(levels) : i # j => Key(levels[i]) # Key(levels[j])

\* C3: after any sequence of registration events, deposits (event or POST
\* /investments), commission events and setup-levels calls handled one at a
\* time, no two LevelRelationship rows carry the same (descendant, ancestor,
\* level) key.
C3_UniqueKeys ==
  Cardinality(Keys(levels)) = Len(levels)

\* Rows written by a registration, by a POST /investments and looked over by
\* a setup-levels call are in the store together.
C3_Witness ==
  /\ response.op = "setupLevels" /\ response.status = "200"
  /\ Len(investments) >= 1
  /\ Len(levels) >= 3

\* C5 (as claimed): handling a deposit whose txHash is already in the
\* Investment ledger, by the Deposit event handler or by POST /investments,
\* leaves the ledger, the User documents and every Level row unchanged.
C5_ReplayChangesNothing ==
  [][\A u \in Addr, a \in Amounts, t \in TxHashes :
       (TxRecorded(investments, t)
          /\ (handleDepositEvent(u, a, t) \/ postInvestment(u, a, t)))
       => UNCHANGED <<investments, users, levels>>]_vars

C7_SecondRunChangesNothing ==
  [][response'.op = "registration" =>
       \A u \in Addr, r \in EventAddr :
         handleRegistrationEvent(u, r) =>
           createLevelRelationships(levels', users', u, r) = levels']_vars

\* A registration has materialized rows for a user, and the pair's run is
\* the one a repeat of the event would make.
C7_Witness ==
  /\ response.op = "registration"
  /\ \E u \in DOMAIN users :
       /\ users[u].referrerAddress \in EventAddr
       /\ Len(getUplineChain(users, users[u].referrerAddress, 21)) >= 2
       /\ KeysOf(levels, u) # {}
       /\ createLevelRelationships(levels, users, u, users[u].referrerAddress) = levels

\* C9 (as claimed): after registering root 1, 2 under 1, 3 under 2 and a
\* deposit of 100 by 3, the store holds exactly the rows (2,1,1), (3,2,1) and
\* (3,1,2), the two rows of 3 with totalInvestment 100 and (2,1,1) with 0, and
\* teamSummary(1) reports totalTeamSize 2 and totalTeamInvestment 100.
C9_ScenarioA ==
  scenario = Len(ScenarioSteps) =>
    /\ C3_UniqueKeys
    /\ Keys(levels) = {<<2, 1, 1>>, <<3, 2, 1>>, <<3, 1, 2>>}
    /\ InvestmentAt(levels, 3, 2, 1) = 100
    /\ InvestmentAt(levels, 3, 1, 2) = 100
    /\ InvestmentAt(levels, 2, 1, 1) = 0
    /\ teamSummary(levels, 1).totalTeamSize = 2
    /\ teamSummary(levels, 1).totalTeamInvestment = 100

\* C10 (as claimed): when U registered under X before X was in the User
\* Directory and X has registered since, re-running the materialization for
\* U gives U a row for X at level 1 and a row for each ancestor of X at the
\* levels after it, and running it again changes nothing.
C10_LateBindingRepair ==
  \A pair \in lateBound :
    LET u == pair[1]
        x == pair[2]
        repaired == createLevelRelationships(levels, users, u, x)
        above == Hops(users, x, 20)
    IN (u \in DOMAIN users /\ users[u].referrerAddress = x /\ x \in DOMAIN users) =>
         /\ <<u, x, 1>> \in Keys(repaired)
         /\ \A i \in 1..Len(above) : <<u, above[i], i + 1>> \in Keys(repaired)
         /\ createLevelRelationships(repaired, users, u, x) = repaired

\* C8: no operation creates a Level row with a level above 21 or below 1,
\* however long the referral chain is.
C8_LevelInRange ==
  \A k \in 1..Len(levels) : levels[k].level >= 1 /\ levels[k].level <= 21

\* The chain is longer than 21, its deepest wallet has deposited through
\* POST /investments and setup-levels has run for the root: both have written
\* their level-21 row.
C8_Witness ==
  /\ Cardinality(DOMAIN users) = ChainLen
  /\ \E k \in 1..Len(levels) :
       /\ levels[k].level = 21 /\ levels[k].totalInvestment > 0
       /\ levels[k].userAddress = ChainLen
       /\ Len(Hops(users, levels[k].userAddress, ChainLen)) > 21
  /\ <<22, 1, 21>> \in Keys(levels)

C12_LedgerFirst ==
  \A a \in DOMAIN users : \A k \in 1..Len(users[a].deposits) :
    TxRecorded(investments, users[a].deposits[k].txHash)

\* C13 (as claimed): in every state, a Registration event for a known user
\* with another referrer included, each descendant D has at most one row per
\* level and at most min(K, 21) rows, K the length of D's current referrer
\* chain, and the ancestor of each row is D's current upline hop at the
\* row's level.
C13_RowsFollowReferrer ==
  \A d \in DOMAIN users :
    LET hops == Hops(users, d, 21)
        rows == {k \in 1..Len(levels) : levels[k].userAddress = d}
    IN /\ \A i, j \in rows : i # j => levels[i].level # levels[j].level
       /\ Cardinality(rows) <= Len(hops)
       /\ \A k \in rows : /\ levels[k].level <= Len(hops)
                          /\ levels[k].referrerAddress = hops[levels[k].level]

\* C14 (as claimed): the status of a ledger entry changes only from pending,
\* to confirmed or to failed; no operation, PATCH /investments/:txHash/status
\* included, changes the status of a confirmed or failed entry.
C14_StatusFinal ==
  [][\A k \in 1..Len(investments) :
       /\ investments'[k].status # investments[k].status
            => investments[k].status = "pending"
               /\ investments'[k].status \in {"confirmed", "failed"}]_vars

\* C15 (as claimed): a level query whose level parameter is a number outside
\* 1..21 is answered 400 and has read no collection, on GET
\* /levels/stats/:level and on GET /referrals/level/:walletAddress/:levelNumber.
C15_InvalidRange ==
  [][\A param \in LevelParams :
       (parseInt(param) # NaN /\ parseInt(param) \notin 1..21) =>
         /\ getLevelsStats(param) => response'.status = "400" /\ reads' = << >>
         /\ \A w \in Addr :
              referralLevelUsers(w, param) =>
                response'.status = "400" /\ reads' = << >>]_vars

\* C16 (as claimed): GET /levels/stats/all is answered with a levels list of
\* 21 entries, one per level 1..21, a level without rows being there with
\* zero counts and zero totals.
C16_AllLevelsListed ==
  [][getLevelsStats(<<"a", "l", "l">>) =>
       /\ response'.status = "200"
       /\ Len(response'.body) = 1
       /\ "levels" \in DOMAIN response'.body[1]
       /\ DOMAIN response'.body[1].levels = 1..21
       /\ \A i \in 1..21 :
            LET rows == SelectSeq(levels, LAMBDA row : row.level = i /\ row.isActive)
            IN /\ response'.body[1].levels[i].level = i
               /\ response'.body[1].levels[i].totalUsers = Len(rows)
               /\ response'.body[1].levels[i].totalInvestment = SumInvestment(rows)
               /\ response'.body[1].levels[i].totalEarnings = SumEarnings(rows)]_vars

\* The aggregation of the claims over the active rows under an ancestor.
ActiveUnder(A) ==
  {k \in 1..Len(levels) : levels[k].referrerAddress = A /\ levels[k].isActive}

RECURSIVE SumOver(_, _)
SumOver(S, field) ==
  IF S = {} THEN 0
  ELSE LET k == CHOOSE x \in S : TRUE
       IN levels[k][field] + SumOver(S \ {k}, field)

EarningsAt(A, i) == SumOver({k \in ActiveUnder(A) : levels[k].level = i}, "totalEarnings")

\* C17: on any store content teamSummary(A) is the aggregation over the
\* active rows under A: totalTeamSize their number, totalTeamInvestment and
\* totalTeamEarnings the sums of their totals, activeLevels the number of
\* levels that have a row, maxLevel the highest of them, topPerformingLevel a
\* level whose earnings no level exceeds; the quick summary agrees on the
\* fields it has.
C17_TeamSummaryAggregates ==
  /\ (response.op = "userLevels" /\ response.status = "200") =>
       LET A == response.body[1].userAddress
           t == response.body[1].teamSummary
       IN /\ t.totalTeamSize = Cardinality(ActiveUnder(A))
          /\ t.totalTeamInvestment = SumOver(ActiveUnder(A), "totalInvestment")
          /\ t.totalTeamEarnings = SumOver(ActiveUnder(A), "totalEarnings")
          /\ t.activeLevels = Cardinality({levels[k].level : k \in ActiveUnder(A)})
          /\ \A k \in ActiveUnder(A) : levels[k].level <= t.maxLevel
          /\ ActiveUnder(A) # {} => \E k \in ActiveUnder(A) : levels[k].level = t.maxLevel
          /\ t.topPerformingLevel \in 1..21
          /\ \A i \in 1..21 : EarningsAt(A, i) <= EarningsAt(A, t.topPerformingLevel)
  /\ (response.op = "userSummary" /\ response.status = "200") =>
       LET A == response.body[1].userAddress
           q == response.body[1].quickStats
       IN /\ q.totalTeamSize = Cardinality(ActiveUnder(A))
          /\ q.totalTeamInvestment = SumOver(ActiveUnder(A), "totalInvestment")
          /\ q.totalTeamEarnings = SumOver(ActiveUnder(A), "totalEarnings")
          /\ q.activeLevels = Cardinality({levels[k].level : k \in ActiveUnder(A)})
          /\ \A k \in ActiveUnder(A) : levels[k].level <= q.maxLevel
          /\ ActiveUnder(A) # {} => \E k \in ActiveUnder(A) : levels[k].level = q.maxLevel

\* The summary of an ancestor with two active rows at different levels, the
\* deeper one with the earnings.
C17_Witness ==
  /\ response.op = "userLevels" /\ response.status = "200"
  /\ response.body[1].teamSummary.totalTeamSize = 2
  /\ response.body[1].teamSummary.maxLevel = 21
  /\ response.body[1].teamSummary.topPerformingLevel = 21
  /\ response.body[1].teamSummary.totalTeamEarnings = 1
  /\ response.body[1].teamSummary.totalTeamInvestment = 100

\* C18: the summary of a registered user without downline has every field
\* zero, maxLevel, the averages, roi, levelDistributionEfficiency and
\* topPerformingLevel included, and on any store no field of a summary is NaN
\* or Infinity.
C18_EmptyTeamAllZero ==
  /\ (response.op = "userLevels" /\ response.status = "200") =>
       LET A == response.body[1].userAddress
           t == response.body[1].teamSummary
       IN /\ \A f \in DOMAIN t : t[f] \notin {NaN, Infinity}
          /\ ActiveUnder(A) = {} => \A f \in DOMAIN t : t[f] = 0
  /\ (response.op = "userSummary" /\ response.status = "200") =>
       LET A == response.body[1].userAddress
           q == response.body[1].quickStats
       IN /\ \A f \in DOMAIN q : q[f] \notin {NaN, Infinity}
          /\ ActiveUnder(A) = {} => \A f \in DOMAIN q : q[f] = 0

\* The users with A as their n-th upline hop, and those of them that are
\* active together with every user between them and A.
BelowAt(U, A, n) ==
  {u \in DOMAIN U : Len(Hops(U, u, 21)) >= n /\ Hops(U, u, 21)[n] = A}

ActiveBelowAt(U, A, n) ==
  {u \in BelowAt(U, A, n) :
     /\ U[u].status = "active"
     /\ \A k \in 1..(n - 1) : /\ Hops(U, u, 21)[k] \in DOMAIN U
                              /\ U[Hops(U, u, 21)[k]].status = "active"}

Distance(U, A, u) ==
  IF \E n \in 1..21 : u \in BelowAt(U, A, n)
  THEN CHOOSE n \in 1..21 : u \in BelowAt(U, A, n) /\ \A m \in 1..(n - 1) : u \notin BelowAt(U, A, m)
  ELSE 0

NoRepeats(seq) == Cardinality({seq[k] : k \in 1..Len(seq)}) = Len(seq)

\* C19 (as claimed): getUsersAtLevel(referrer, targetLevel) returns exactly
\* the users of the User Directory whose distance below referrer along
\* direct-referral edges is targetLevel, each of them once.
C19_UsersAtDistance ==
  (response.op = "treeDirect" /\ response.status = "200") =>
    LET A == response.body[1].referrerAddress
        tree == response.body[1].tree
    IN \A level \in DOMAIN tree :
         /\ NoRepeats(tree[level])
         /\ {tree[level][k] : k \in 1..Len(tree[level])}
              = {u \in DOMAIN users : Distance(users, A, u) = level}

\* C19 (as the code has it): getUsersAtLevel(referrer, targetLevel) returns,
\* each once, exactly the active users that have referrer as their
\* targetLevel-th upline hop with only active users in between; an inactive
\* user is left out together with everyone below it.
C19_ActiveUsersAtDepth ==
  (response.op = "treeDirect" /\ response.status = "200") =>
    LET A == response.body[1].referrerAddress
        tree == response.body[1].tree
    IN \A level \in DOMAIN tree :
         /\ NoRepeats(tree[level])
         /\ {tree[level][k] : k \in 1..Len(tree[level])} = ActiveBelowAt(users, A, level)

\* A walk that returns users at levels 1 and 2 and leaves an inactive direct
\* referral out.
C19_Witness ==
  /\ response.op = "treeDirect" /\ response.status = "200"
  /\ Len(response.body[1].tree) = 21
  /\ response.body[1].tree[1] # << >>
  /\ response.body[1].tree[2] # << >>
  /\ \E u \in DOMAIN users : /\ users[u].referrerAddress = response.body[1].referrerAddress
                             /\ users[u].status = "inactive"

\* C20: on a forest built by registrations in referral order with every user
\* active, GET /referrals/stats answers, for the same ancestor and each level
\* 1..21, the user count GET /referrals/stats-direct answered just before.
C20_FastEqualsSlow ==
  [][(/\ response.op = "statsDirect" /\ response.status = "200"
      /\ response'.op = "stats" /\ response'.status = "200"
      /\ response'.body[1].userAddress = response.body[1].userAddress)
     => \A level \in 1..21 :
          response'.body[1].levelSummary[level].userCount
            = response.body[1].levelSummary[level].userCount]_vars

\* An entry of the tier under the key that has not expired, and what the
\* claims say of a cached query answered while there is one or none.
Fresh(tier, key) == key \in DOMAIN cache[tier] /\ now <= cache[tier][key].expiry

HitReturnsStored(tier, key) ==
  /\ response'.status = "200"
  /\ reads' = << >>
  /\ "cached" \in DOMAIN response'.body[1]
  /\ response'.body[1].cached = TRUE
  /\ \A f \in DOMAIN cache[tier][key].value :
       response'.body[1][f] = cache[tier][key].value[f]

MissStoresResult(tier, key) ==
  response'.status = "200" =>
    /\ reads' # << >>
    /\ key \in DOMAIN cache'[tier]
    /\ cache'[tier][key].value = response'.body[1]

\* C21: every cached query (GET /referrals/stats-direct, GET
\* /referrals/level) computes its result from the store on a miss and stores
\* it under its key, and on a hit before expiry answers that stored result
\* with a flag marking it as cached, without reading the store.
C21_MissStoresHitFlagged ==
  [][/\ \A w \in Addr :
          statsDirect(w) =>
            IF Fresh("default", <<"referral_stats", w>>)
            THEN HitReturnsStored("default", <<"referral_stats", w>>)
            ELSE MissStoresResult("default", <<"referral_stats", w>>)
     /\ \A w \in Addr : \A param \in {<<"1">>, <<"2">>} :
          referralLevelUsers(w, param) =>
            IF Fresh("default", <<"level_users", w, parseInt(param)>>)
            THEN HitReturnsStored("default", <<"level_users", w, parseInt(param)>>)
            ELSE MissStoresResult("default", <<"level_users", w, parseInt(param)>>)]_vars

\* What C22 says of a cached query with the ttl its entries get: an answer
\* from the cache comes from an entry that has not expired, and an answer
\* that is stored expires ttl after now.
ServedWithin(tier, key, ttl) ==
  /\ (response'.status = "200" /\ reads' = << >>) =>
       /\ Fresh(tier, key)
       /\ \A f \in DOMAIN cache[tier][key].value :
            response'.body[1][f] = cache[tier][key].value[f]
  /\ (response'.status = "200" /\ reads' # << >>) =>
       /\ key \in DOMAIN cache'[tier]
       /\ cache'[tier][key].expiry = now + ttl

\* C22: a cached result is returned only by a read at or before the expiry
\* its entry got when it was stored (now + ttl), and no step, a registration,
\* deposit or commission write included, removes or changes an entry that
\* has not expired; so a read after a write may be answered with the result
\* from before the write until the entry expires, and not later.
C22_StaleUntilExpiry ==
  [][/\ \A w \in Addr :
          statsDirect(w) => ServedWithin("default", <<"referral_stats", w>>, 300)
     /\ \A w \in Addr : \A param \in {<<"1">>, <<"2">>} :
          referralLevelUsers(w, param) =>
            ServedWithin("default", <<"level_users", w, parseInt(param)>>, TierTtl["default"])
     /\ \A w \in Addr :
          treeUltraOptimized(w) =>
            ServedWithin("longTerm", <<"referral_tree_ultra", w, 21, 100>>, 1800)
     /\ \A tier \in DOMAIN cache : \A key \in DOMAIN cache[tier] :
          Fresh(tier, key) =>
            key \in DOMAIN cache'[tier] /\ cache'[tier][key] = cache[tier][key]]_vars

\* GET /referrals/stats-direct answered from the cache with the team as it
\* was before a registration that added a direct referral.
C22_Witness ==
  /\ response.op = "statsDirect" /\ response.status = "200"
  /\ "cached" \in DOMAIN response.body[1]
  /\ response.body[1].levelSummary[1].userCount
       # Len(ActiveReferrals(users, response.body[1].userAddress))

\* An entry under the key whose result was computed at most `window`
\* milliseconds ago.
StoredWithin(tier, key, window) ==
  key \in DOMAIN cache[tier] /\ now <= cache[tier][key].value.timestamp + window

\* C26: a result stored by GET /referrals/stats-direct is served from the
\* cache for 5 minutes (300000 ms) after it was stored and a result stored by
\* GET /referrals/tree-ultra-optimized for 30 minutes (1800000 ms): the same
\* request inside that window is a cache hit.
C26_ServedForMinutes ==
  [][/\ \A w \in Addr :
          (statsDirect(w) /\ StoredWithin("default", <<"referral_stats", w>>, 300000))
            => (response'.status = "200" /\ reads' = << >>)
     /\ \A w \in Addr :
          (treeUltraOptimized(w)
             /\ StoredWithin("longTerm", <<"referral_tree_ultra", w, 21, 100>>, 1800000))
            => (response'.status = "200" /\ reads' = << >>)]_vars

\* C27: clearAll() empties the three tiers; del, delLongTerm, delShortTerm
\* and clearByPattern remove the matching entries of their tier; each call
\* completes without raising an error, and afterwards a get of a removed key
\* answers undefined.
C27_RemovalsComplete ==
  [][/\ clearAll =>
          /\ response'.status # "threw"
          /\ \A tier \in DOMAIN cache' : DOMAIN cache'[tier] = {}
     /\ \A key \in CacheKeys :
          /\ del(key) =>
               response'.status # "threw" /\ TierGet(cache', "default", key, now) = << >>
          /\ delLongTerm(key) =>
               response'.status # "threw" /\ TierGet(cache', "longTerm", key, now) = << >>
          /\ delShortTerm(key) =>
               response'.status # "threw" /\ TierGet(cache', "shortTerm", key, now) = << >>
     /\ \A pattern \in {"stats", "tree", "level"} :
          clearByPattern(pattern) =>
            /\ response'.status # "threw"
            /\ \A tier \in DOMAIN cache' : \A key \in DOMAIN cache'[tier] :
                 ~PatternMatches(pattern, key)]_vars

\* The sum of a field over the 21 entries of levelAnalytics.
RECURSIVE SumAnalytics(_, _, _)
SumAnalytics(analytics, field, i) ==
  IF i > 21 THEN 0 ELSE analytics[i][field] + SumAnalytics(analytics, field, i + 1)

\* C23: in the answer of GET /levels/user/:walletAddress the
\* investmentPercentage of a level is its totalInvestment over the
\* totalTeamInvestment of all 21 levels, times 100, and likewise the
\* earningsPercentage, so the percentages of the levels add up to 100 when
\* the team total is not zero (in hundredths, rounded as toFixed(2) rounds).
C23_PercentagesOfTeamTotal ==
  (response.op = "userLevels" /\ response.status = "200") =>
    LET t == response.body[1].teamSummary
        a == response.body[1].levelAnalytics
    IN /\ t.totalTeamInvestment > 0 =>
            /\ \A i \in 1..21 :
                 a[i].investmentPercentage
                   = (a[i].totalInvestment * 10000 + (t.totalTeamInvestment \div 2))
                       \div t.totalTeamInvestment
            /\ SumAnalytics(a, "investmentPercentage", 1) \in (10000 - 21)..(10000 + 21)
       /\ t.totalTeamEarnings > 0 =>
            /\ \A i \in 1..21 :
                 a[i].earningsPercentage
                   = (a[i].totalEarnings * 10000 + (t.totalTeamEarnings \div 2))
                       \div t.totalTeamEarnings
            /\ SumAnalytics(a, "earningsPercentage", 1) \in (10000 - 21)..(10000 + 21)

\* A user with status inactive stored under the wallet a.
InactiveUser(U, a) == UserExists(U, a) /\ U[a].status = "inactive"

RunsInProgress == {c \in SyncCalls : sync.pc[c] # "none"}

\* C28: at most one run of performSync is in progress; a call made while a
\* run is in progress returns without a sync step, leaving the stores and the
\* run as they are; and isRunning is true exactly while a run is in
\* progress, so it is false again when the run has ended, also when a step
\* rejected, which is what the callback of the next cron tick tests.
C28_OneRunAtATime ==
  [][/\ Cardinality(RunsInProgress') <= 1
     /\ sync'.isRunning <=> RunsInProgress' # {}
     /\ \A c \in SyncCalls :
          (sync.isRunning /\ performSync(c)) =>
            UNCHANGED <<users, levels, investments, sync>>]_vars

\* A call was skipped while the run of the other call stands at its last
\* step.
C28_Witness ==
  /\ response.op = "performSync"
  /\ response.status = "skipped"
  /\ \E c \in SyncCalls : sync.pc[c] = "cleanupInactiveRecords"

\* C29: in the historical processing every Registration log of a batch is
\* handled before any Deposit log of that batch, and the batches are handled
\* in ascending order, so that no deposit is handled before a registration
\* of the same or of an earlier batch.
C29_RegistrationsFirst ==
  LET handled == historical.handled
  IN /\ \A i, j \in 1..Len(handled) :
          i < j =>
            /\ handled[i].batch <= handled[j].batch
            /\ (handled[i].batch = handled[j].batch /\ handled[i].kind = "Deposit")
                 => handled[j].kind = "Deposit"
     /\ \A j \in 1..Len(handled) :
          handled[j].kind = "Deposit" =>
            \A k \in 1..Len(historical.chain[handled[j].batch].registrationLogs) :
              \E i \in 1..(j - 1) :
                handled[i] = [kind |-> "Registration", batch |-> handled[j].batch, k |-> k]

\* Two registrations and then a deposit of the first batch were handled, and
\* after them a log of the second batch.
C29_Witness ==
  LET handled == historical.handled
  IN /\ Len(handled) >= 4
     /\ handled[1].kind = "Registration" /\ handled[2].kind = "Registration"
     /\ handled[3] = [kind |-> "Deposit", batch |-> 1, k |-> 1]
     /\ handled[4].batch = 2

\* C25: on every directory, also one with a cycle of referrers or a wallet
\* that is its own referrer, the walks stop within their level bound:
\* getUplineChain returns at most maxLevels referrers, the upline route at
\* most maxLevels entries, the tree route at most 21 levels, and the rows
\* that the registration, the deposit walk of POST /investments and
\* createDeeperLevels write have a level of 1..21.
C25_WalksWithinBound ==
  [][/\ \A a \in Addr : \A maxLevels \in {1, 21} :
          Len(getUplineChain(users, a, maxLevels)) <= maxLevels
     /\ \A k \in 1..Len(levels') : levels'[k].level \in 1..21
     /\ \A w \in Addr, param \in UplineParams :
          (uplineRoute(w, param) /\ response'.status = "200") =>
            Len(response'.body[1].uplineChain) <= UplineMaxLevels(param)
     /\ (response'.op = "treeDirect" /\ response'.status = "200") =>
          Len(response'.body[1].tree) <= 21]_vars

\* A walk over a wallet that is its own referrer went on to level 21.
C25_Witness ==
  \E k \in 1..Len(levels) :
    /\ levels[k].level = 21
    /\ users[levels[k].userAddress].referrerAddress = levels[k].userAddress
    /\ levels[k].referrerAddress = levels[k].userAddress

\* The Level rows as a set, each with its totalInvestment.
RowSet(L) == {L[k] : k \in 1..Len(L)}

\* C30: from one state of the stores, a deposit of a registered wallet
\* recorded through POST /investments leaves the Level rows that the Deposit
\* event handler would leave, with the same totalInvestment on each, and the
\* other way round.
C30_SameRowsEitherWay ==
  [][\A u \in Addr, t \in TxHashes :
       /\ (postInvestment(u, 100, t) /\ response'.status = "201") =>
            RowSet(levels') = RowSet(updateLevelInvestments(levels, u, 100))
       /\ (handleDepositEvent(u, 100, t) /\ UserExists(users, u)
             /\ response'.log = "info") =>
            RowSet(levels') = RowSet(updateLevelInvestmentsRoute(levels, users, u, 100))]_vars

====
